---- MODULE Spec2Model ----
(***************************************************************************)
(* The resumable batch-transfer scripts of the OneLake migration           *)
(* repository: each program lists the files, uploads them in batches,      *)
(* records the results in a progress dictionary and writes that dictionary *)
(* to a JSON file.  One behaviour of the model is a sequence of runs of    *)
(* one program against its progress file; a run can be killed at any step  *)
(* and a write of the file can fail.                                       *)
(***************************************************************************)
EXTENDS Integers, Sequences, FiniteSets, TLC

\* ---- bounds of the model ----
NumFiles == 3        \* number of entries of the file list
BatchSize == 2       \* Config.BATCH_SIZE / self.batch_size, scaled down
MaxRuns == 2         \* program runs in one behaviour
MaxSize == 2         \* file sizes are 1..MaxSize
MaxWorkers == 2      \* max_workers: threads of the downloader's pool
SaveInterval == 2    \* the downloaders save every 100 / every 1000 files; scaled to the list
MaxTokens == 2       \* how many of the substrings looked for one error message contains
MaxRetries == 3      \* max_retries of one download is 0..MaxRetries (defaults 3 and 2)
MaxConcurrent == 1   \* Config.MAX_CONCURRENT_UPLOADS, scaled down

\* ---- program constants ----
SaveEvery == 10      \* turbo: "if batch_idx % 10 == 0" saves the progress
NumRequests == 3     \* an upload is three requests: create, append, flush

VARIABLES
    prog,            \* the program whose runs this behaviour follows
    batch_size,      \* Config.BATCH_SIZE / self.batch_size of that program
    sizes,           \* size_bytes of every file of the source tree
    max_runs,        \* how many times the program is run in this behaviour
    given,           \* what the run now started found: the token and the file cache
    pc,              \* position of the process (or why it is not running)
    progress,        \* the in-memory progress dictionary of the running process
    disk,            \* the progress file
    batch_num,       \* loop variable batch_num / batch_idx
    work,            \* the list the batches are cut from in this run
    migration_stats, \* turbo programs: the local migration_stats dictionary
    ret,             \* what the run returned
    runs,            \* number of runs started
    attempted,       \* keys whose transfer was issued in the current run
    startCompleted,  \* keys the loaded progress held as completed at run start
    reissued,        \* keys whose transfer was issued while already completed
    seen,            \* per key, the outcome of its most recent transfer
    stable,          \* no key has had two different transfer outcomes
    tornLoad,        \* some run has found the progress file unreadable
    unsaved,         \* batches applied in memory since the last call of save_progress
    lastResults,     \* the results of the batch processed last in this run
    lastApplied,     \* how many of lastResults were applied to progress
    abort_cause,     \* the exception that ended the run, if any
    wasKilled,       \* some run has been killed
    tasks,           \* per file of the batch being uploaded, its upload coroutine
    dpc,             \* downloaders: position of the main thread
    idx,             \* download_all_files: the loop variable i
    dl_results,      \* downloaders: the results dictionary (success and failed lists)
    total_processed, \* download_all_files_turbo: the counter of that name
    local,           \* the files present under local_download_path
    progress_file,   \* downloaders: the progress file
    workers,         \* download_all_files_turbo: per submitted task, its download_worker call
    progress_lock,   \* download_all_files_turbo: the task holding progress_lock, or 0
    at_start,        \* total_processed and the lengths of the result lists when the pool started
    call,            \* one call of a function followed on its own: its argument and what it returned
    backup           \* the backup files clear_failed_files_status has written

vars == <<prog, batch_size, sizes, max_runs, given, wasKilled, pc, progress, disk, batch_num, work, migration_stats, ret, runs,
          attempted, startCompleted, reissued, seen, stable, tornLoad, unsaved,
          lastResults, lastApplied, abort_cause, tasks,
          dpc, idx, dl_results, total_processed, local, progress_file, workers, progress_lock,
          at_start, call, backup>>

\* the program and the inputs one behaviour keeps, and the function call and
\* the backup files no step of a migrator or of a downloader touches
inputs == <<prog, batch_size, sizes, max_runs, call, backup>>

\* the state of the downloaders
downloader == <<dpc, idx, dl_results, total_processed, local, progress_file, workers,
                progress_lock, at_start>>

\* what no step of a migrator changes after the run has started
fixed == <<inputs, given, downloader>>

\* what the steps of the batch loop leave alone
aside == <<fixed, tasks>>

\* ---- data ----
Files == 1..NumFiles                      \* relative_path of files[i-1] is i
files == [i \in 1..NumFiles |-> i]        \* the cached file list, in order
Caches == {"files", "empty", "missing"}   \* the file cache: a list, an empty list, unreadable
Sound == [token |-> TRUE, cache |-> "files"]  \* a token and a file list are there
Outcomes == {"ok", "fail", "raise"}         \* a transfer succeeds, returns a failure, raises
NoResults == [success |-> <<>>, failed |-> <<>>]   \* results = {"success": [], "failed": []}
NoCall == [made |-> FALSE]                \* no function call is followed
NoFile == [exists |-> FALSE]              \* no download progress file
TornFile == [exists |-> TRUE, torn |-> TRUE]  \* a file json.load rejects
Programs == {"production", "refresh", "complete", "turbo", "turbo_fixed", "fabric"}
Stopped == {"idle", "done", "refused", "killed", "killed_in_save", "load_raised", "aborted"}
Running == {"batch", "save", "mid_save"}

Min(a, b) == IF a < b THEN a ELSE b
Range(s) == {s[i] : i \in DOMAIN s}
Put(f, k, v) == [x \in (DOMAIN f) \cup {k} |-> IF x = k THEN v ELSE f[x]]
\* python s[i:j] for 0 <= i, j
\* mutant: the slice ends one element late, so consecutive slices overlap
Slice_overlap(s, i, j) == SubSeq(s, i + 1, Min(j + 1, Len(s)))

Slice(s, i, j) == SubSeq(s, i + 1, Min(j, Len(s)))
EmptyDict == [x \in {} |-> 0]

NoStore == [none |-> TRUE]                \* no process, no dictionary
Absent == [kind |-> "absent"]             \* the file does not exist
Torn == [kind |-> "torn"]                 \* the file is empty or cut short: not JSON
OnDisk(s) == [kind |-> "ok", data |-> s]  \* the file holds the complete dump of s

\* (len(files) + BATCH_SIZE - 1) // BATCH_SIZE
total_batches(n) == (n + batch_size - 1) \div batch_size

\* ======================= OneLakeProductionMigrator =======================

Prod_Fresh ==
    [total_files |-> 0, uploaded_files |-> 0, failed_files |-> 0, skipped_files |-> 0,
     completed_files |-> EmptyDict, failed_files_list |-> <<>>, current_batch |-> 0]

\* json.load is not guarded: a file that is not JSON raises
Prod_load_raises(d) == d.kind = "torn"

\* mutant: the loaded dictionary also counts the failed files as completed
Prod_load_progress_failed_done(d) ==
    IF d.kind = "ok"
    THEN [d.data EXCEPT !.completed_files =
             [k \in (DOMAIN @) \cup {d.data.failed_files_list[i].path :
                                       i \in DOMAIN d.data.failed_files_list} |->
                 IF k \in DOMAIN @ THEN @[k] ELSE [batch |-> 0, timestamp |-> 0]]]
    ELSE Prod_Fresh

Prod_load_progress(d) == IF d.kind = "ok" THEN d.data ELSE Prod_Fresh

\* mutant: the check for an already uploaded file is left out
Prod_already_uploaded_never(store, k) == FALSE

\* "if relative_path in self.progress['completed_files']"
Prod_already_uploaded(store, k) == k \in DOMAIN store.completed_files

\* the result of upload_file_async for file k whose transfer would end in o
Prod_upload_file_async(store, k, o) ==
    IF Prod_already_uploaded(store, k)
    THEN [kind |-> "skipped", path |-> k]
    ELSE CASE o = "ok"   -> [kind |-> "success", path |-> k]
           [] o = "fail" -> [kind |-> "failed", path |-> k]
           [] OTHER      -> [kind |-> "exception", path |-> k]

\* asyncio.gather(*tasks, return_exceptions=True): one result per file, in order
Prod_upload_batch(store, batch, o) ==
    [i \in 1..Len(batch) |-> Prod_upload_file_async(store, batch[i], o[batch[i]])]

\* the body of "for result in results" for one result; time.time() is the
\* number of the run
Prod_apply_result(store, r, b) ==
    CASE r.kind = "skipped" -> [store EXCEPT !.skipped_files = @ + 1]
      [] r.kind = "success" ->
            [store EXCEPT !.uploaded_files = @ + 1,
                          !.completed_files =
                              Put(@, r.path, [batch |-> b + 1, timestamp |-> runs])]
      [] r.kind = "failed" ->
            [store EXCEPT !.failed_files = @ + 1,
                          !.failed_files_list =
                              Append(@, [path |-> r.path, batch |-> b + 1])]
      [] OTHER -> [store EXCEPT !.failed_files = @ + 1]

RECURSIVE Prod_process_results(_, _, _)
Prod_process_results(store, results, b) ==
    IF results = <<>> THEN store
    ELSE Prod_process_results(Prod_apply_result(store, Head(results), b),
                              Tail(results), b)

\* "Calculate batch range" with the defaults start_batch=0, max_batches=None
Prod_end_batch == total_batches(Len(files))
\* batch = files[start_idx:end_idx]
Prod_batch(b) == Slice(files, b * batch_size, Min(b * batch_size + batch_size, Len(files)))

\* ============================ shared bookkeeping ==========================

\* the keys a progress dictionary records as completed
CompletedKeys(store) ==
    CASE prog \in {"turbo", "turbo_fixed"} -> Range(store.completed_files)
      [] prog = "fabric" -> {}
      [] OTHER -> DOMAIN store.completed_files

\* the keys whose transfer a batch issued (a skipped result issues none)
Issued(results) == {results[i].path : i \in {j \in DOMAIN results : results[j].kind /= "skipped"}}

\* a run starts from the dictionary `loaded`
BeginRun(loaded) ==
    /\ runs' = runs + 1
    /\ attempted' = {}
    /\ startCompleted' = CompletedKeys(loaded)
    /\ unsaved' = 0
    /\ lastResults' = <<>>
    /\ lastApplied' = 0
    /\ abort_cause' = "none"

\* the process ends without returning: its dictionary and its locals are gone
EndProcess ==
    /\ progress' = NoStore
    /\ batch_num' = 0
    /\ work' = <<>>
    /\ migration_stats' = EmptyDict
    /\ lastResults' = <<>>
    /\ lastApplied' = 0

\* a run ends at its start because load_progress raised
LoadRaised ==
    /\ runs' = runs + 1
    /\ pc' = "load_raised"
    /\ tornLoad' = TRUE
    /\ abort_cause' = "load"
    /\ EndProcess
    /\ UNCHANGED <<inputs, downloader, tasks, wasKilled, disk, ret, attempted,
                   startCompleted, reissued, seen, stable, unsaved>>

\* a run ends before its loop, returning `result`: nothing was loaded or issued
Refused(result) ==
    /\ runs' = runs + 1
    /\ pc' = "refused"
    /\ ret' = result
    /\ abort_cause' = "none"
    /\ attempted' = {}
    /\ startCompleted' = {}
    /\ unsaved' = 0
    /\ EndProcess
    /\ UNCHANGED <<inputs, downloader, tasks, wasKilled, disk, reissued, seen, stable, tornLoad>>

\* a run over an empty file list ends in its final summary, which divides by
\* len(self.files_data)
SummaryRaised(loaded) ==
    /\ runs' = runs + 1
    /\ pc' = "aborted"
    /\ ret' = "none"
    /\ abort_cause' = "summary"
    /\ attempted' = {}
    /\ startCompleted' = CompletedKeys(loaded)
    /\ unsaved' = 0
    /\ EndProcess
    /\ UNCHANGED <<inputs, downloader, tasks, wasKilled, disk, reissued, seen, stable, tornLoad>>

\* a batch with outcomes o produced `results`, of which the first n were applied
NoteBatch(before, results, o, n) ==
    /\ attempted' = attempted \cup Issued(results)
    /\ reissued' = reissued \cup (Issued(results) \cap CompletedKeys(before))
    /\ seen' = [k \in Files |-> IF k \in Issued(results) THEN o[k] ELSE seen[k]]
    /\ stable' = (stable /\ \A k \in Issued(results) : seen[k] \in {"none", o[k]})
    /\ unsaved' = unsaved + 1
    /\ lastResults' = results
    /\ lastApplied' = n

\* the exception of a failed step leaves the run
Abort(cause) ==
    /\ pc' = "aborted"
    /\ abort_cause' = cause
    /\ EndProcess
    /\ UNCHANGED ret

\* the run goes on with its dictionary and locals as they are
GoOn == UNCHANGED <<progress, abort_cause, work, migration_stats, lastResults, lastApplied>>

\* ------------------- OneLakeProductionMigrator: the run -------------------

\* __init__ (load_progress) and migrate_files up to the batch loop
Prod_migrate_files_given(token, cache) ==
    /\ prog = "production" /\ pc \in Stopped /\ runs < max_runs
    /\ given' = [token |-> token, cache |-> cache]
    /\ IF Prod_load_raises(disk) THEN LoadRaised
       ELSE IF ~token \/ cache /= "files" THEN Refused("False")
       ELSE /\ BeginRun(Prod_load_progress(disk))
            /\ progress' = [Prod_load_progress(disk) EXCEPT !.total_files = Len(files)]
            /\ batch_num' = 0
            /\ work' = files
            /\ pc' = IF 0 < Prod_end_batch THEN "batch" ELSE "done"
            /\ ret' = IF 0 < Prod_end_batch THEN "none" ELSE "True"
            /\ UNCHANGED <<inputs, downloader, tasks, wasKilled, disk, migration_stats, reissued, seen, stable, tornLoad>>

\* a run that finds its token and its file list
Prod_migrate_files == Prod_migrate_files_given(TRUE, "files")

\* a run that finds whatever is there
Prod_migrate_files_any ==
    \E token \in BOOLEAN, cache \in Caches : Prod_migrate_files_given(token, cache)

\* one pass of the loop body up to the call of save_progress
Prod_apply_batch(o) ==
    LET before == [progress EXCEPT !.current_batch = batch_num + 1]
        results == Prod_upload_batch(before, Prod_batch(batch_num), o)
    IN /\ progress' = Prod_process_results(before, results, batch_num)
       /\ NoteBatch(before, results, o, Len(results))
       /\ pc' = "save"
       /\ UNCHANGED <<fixed, wasKilled, disk, batch_num, work, migration_stats, ret, runs,
                      startCompleted, tornLoad, abort_cause>>

\* the same, the uploads of the batch taken as one step
Prod_process_batch ==
    /\ prog = "production" /\ pc = "batch"
    /\ \E o \in [Range(Prod_batch(batch_num)) -> Outcomes] : Prod_apply_batch(o)
    /\ UNCHANGED tasks

\* after save_progress: the exception of a failed save is not caught
Prod_after_save(failed) ==
    IF failed THEN Abort("save")
    ELSE /\ batch_num' = batch_num + 1
         /\ pc' = IF batch_num + 1 < Prod_end_batch THEN "batch" ELSE "done"
         /\ ret' = IF batch_num + 1 < Prod_end_batch THEN ret ELSE "True"
         /\ GoOn

\* ======== OneLakeMigratorWithRefresh and CompleteMigrator (shared code) ====

\* load_progress, "except FileNotFoundError": the dictionary of a fresh migration
Refresh_Fresh ==
    [total_files |-> Len(files), uploaded_files |-> 0, failed_files |-> 0,
     skipped_files |-> 0, completed_files |-> EmptyDict]

\* only FileNotFoundError is caught: the JSONDecodeError of a bad file propagates
Refresh_load_raises(d) == d.kind = "torn"
Refresh_load_progress(d) == IF d.kind = "ok" THEN d.data ELSE Refresh_Fresh

\* "if relative_path in self.progress_data['completed_files']"
Refresh_already_uploaded(store, k) == k \in DOMAIN store.completed_files

\* the result of upload_file_to_onelake for file k whose transfer would end in o
Refresh_upload_file_to_onelake(store, k, o) ==
    IF Refresh_already_uploaded(store, k)
    THEN [kind |-> "skipped", path |-> k]
    ELSE CASE o = "ok"   -> [kind |-> "success", path |-> k]
           [] o = "fail" -> [kind |-> "failed", path |-> k]
           [] OTHER      -> [kind |-> "exception", path |-> k]

\* the number of results of one kind
Count(results, kind) == Cardinality({i \in DOMAIN results : results[i].kind = kind})

\* "for result in results": only a success changes completed_files
RECURSIVE Refresh_record_successes(_, _, _)
Refresh_record_successes(completed, results, b) ==
    IF results = <<>> THEN completed
    ELSE Refresh_record_successes(
             IF Head(results).kind = "success"
             THEN Put(completed, Head(results).path, [batch |-> b])
             ELSE completed,
             Tail(results), b)

\* upload_batch: gather the results, record them, then update the counters
Refresh_upload_batch(store, batch, o, b) ==
    LET results == [i \in 1..Len(batch) |->
                        Refresh_upload_file_to_onelake(store, batch[i], o[batch[i]])]
    IN [results |-> results,
        store |-> [store EXCEPT
            !.completed_files = Refresh_record_successes(@, results, b),
            !.uploaded_files = @ + Count(results, "success"),
            !.failed_files = @ + Count(results, "failed") + Count(results, "exception"),
            !.skipped_files = @ + Count(results, "skipped")]]

\* batch_files = files_data[start_idx:end_idx], batch numbers from 1
Refresh_batch(b) ==
    Slice(files, (b - 1) * batch_size, Min((b - 1) * batch_size + batch_size, Len(files)))

\* run_migration with the defaults start_batch=1, max_batches=None, up to the loop
Refresh_run_migration_given(token, cache) ==
    /\ prog = "refresh" /\ pc \in Stopped /\ runs < max_runs
    /\ given' = [token |-> token, cache |-> cache]
    /\ IF ~token \/ cache = "missing" THEN Refused("None")
       ELSE IF Refresh_load_raises(disk) THEN LoadRaised
       ELSE IF cache = "empty" THEN SummaryRaised(Refresh_load_progress(disk))
       ELSE /\ BeginRun(Refresh_load_progress(disk))
            /\ progress' = Refresh_load_progress(disk)
            /\ batch_num' = 1
            /\ work' = files
            /\ pc' = IF 1 <= total_batches(Len(files)) THEN "batch" ELSE "done"
            /\ ret' = "none"
            /\ UNCHANGED <<inputs, downloader, tasks, wasKilled, disk, migration_stats, reissued, seen, stable, tornLoad>>

\* a run that finds its token and its file list
Refresh_run_migration == Refresh_run_migration_given(TRUE, "files")

\* a run that finds whatever is there
Refresh_run_migration_any ==
    \E token \in BOOLEAN, cache \in Caches : Refresh_run_migration_given(token, cache)

\* one pass of the loop body up to the call of save_progress
Refresh_apply_batch(o) ==
    LET out == Refresh_upload_batch(progress, Refresh_batch(batch_num), o, batch_num)
    IN /\ progress' = out.store
       /\ NoteBatch(progress, out.results, o, Len(out.results))
       /\ pc' = "save"
       /\ UNCHANGED <<fixed, wasKilled, disk, batch_num, work, migration_stats, ret, runs,
                      startCompleted, tornLoad, abort_cause>>

\* the same, the uploads of the batch taken as one step
Refresh_process_batch ==
    /\ prog = "refresh" /\ pc = "batch"
    /\ \E o \in [Range(Refresh_batch(batch_num)) -> Outcomes] : Refresh_apply_batch(o)
    /\ UNCHANGED tasks

\* after save_progress, which logs a failure and returns: the next batch
Refresh_after_save(failed) ==
    /\ batch_num' = batch_num + 1
    /\ pc' = IF batch_num + 1 <= total_batches(Len(files)) THEN "batch" ELSE "done"
    /\ ret' = IF batch_num + 1 <= total_batches(Len(files)) THEN ret ELSE "None"
    /\ GoOn

\* ---------------------------- CompleteMigrator ----------------------------

\* calculate_remaining_batches: the batch the run starts from
Complete_start_batch(store) ==
    ((store.uploaded_files + store.skipped_files) \div batch_size) + 1

\* run_complete_migration: "remaining_files = len(files_data) - uploaded - skipped"
Complete_remaining_files(store) ==
    Len(files) - store.uploaded_files - store.skipped_files

\* "if uploaded_files + skipped_files >= len(self.files_data)"
Complete_all_processed(store) ==
    store.uploaded_files + store.skipped_files >= Len(files)

\* the value run_complete_migration returns after its final summary
Complete_result(store) == IF Complete_all_processed(store) THEN "True" ELSE "False"

\* run_complete_migration over an empty file list: remaining_files is
\* 0 - uploaded - skipped; zero returns True, anything else skips the loop
\* (total_batches is 0) and reaches the summary
Complete_run_empty(loaded) ==
    IF 0 - loaded.uploaded_files - loaded.skipped_files = 0
    THEN /\ BeginRun(loaded)
         /\ progress' = loaded
         /\ work' = <<>>
         /\ batch_num' = Complete_start_batch(loaded)
         /\ pc' = "done"
         /\ ret' = "True"
         /\ UNCHANGED <<inputs, downloader, tasks, wasKilled, disk, migration_stats, reissued, seen, stable,
                        tornLoad>>
    ELSE SummaryRaised(loaded)

\* run_complete_migration up to the loop
Complete_run_complete_migration_given(token, cache) ==
    /\ prog = "complete" /\ pc \in Stopped /\ runs < max_runs
    /\ given' = [token |-> token, cache |-> cache]
    /\ IF ~token \/ cache = "missing" THEN Refused("False")
       ELSE IF Refresh_load_raises(disk) THEN LoadRaised
       ELSE IF cache = "empty" THEN Complete_run_empty(Refresh_load_progress(disk))
       ELSE LET loaded == Refresh_load_progress(disk)
                first == Complete_start_batch(loaded)
            IN /\ BeginRun(loaded)
               /\ progress' = loaded
               /\ work' = files
               /\ batch_num' = first
               /\ pc' = IF Complete_remaining_files(loaded) /= 0
                           /\ first <= total_batches(Len(files))
                        THEN "batch" ELSE "done"
               /\ ret' = IF Complete_remaining_files(loaded) = 0 THEN "True"
                         ELSE IF first <= total_batches(Len(files)) THEN "none"
                         ELSE Complete_result(loaded)
               /\ UNCHANGED <<inputs, downloader, tasks, wasKilled, disk, migration_stats, reissued, seen, stable,
                              tornLoad>>

\* a run that finds its token and its file list
Complete_run_complete_migration == Complete_run_complete_migration_given(TRUE, "files")

\* a run that finds whatever is there
Complete_run_complete_migration_any ==
    \E token \in BOOLEAN, cache \in Caches : Complete_run_complete_migration_given(token, cache)

\* one pass of the loop body up to the call of save_progress
Complete_process_batch ==
    /\ prog = "complete" /\ pc = "batch"
    /\ \E o \in [Range(Refresh_batch(batch_num)) -> Outcomes] :
         LET out == Refresh_upload_batch(progress, Refresh_batch(batch_num), o, batch_num)
         IN /\ progress' = out.store
            /\ NoteBatch(progress, out.results, o, Len(out.results))
    /\ pc' = "save"
    /\ UNCHANGED <<aside, wasKilled, disk, batch_num, work, migration_stats, ret, runs,
                   startCompleted, tornLoad, abort_cause>>

\* after save_progress: "Check if complete", else the next batch
Complete_after_save(failed) ==
    /\ batch_num' = batch_num + 1
    /\ pc' = IF ~Complete_all_processed(progress)
                /\ batch_num + 1 <= total_batches(Len(files))
             THEN "batch" ELSE "done"
    /\ ret' = IF ~Complete_all_processed(progress)
                /\ batch_num + 1 <= total_batches(Len(files))
              THEN ret ELSE Complete_result(progress)
    /\ GoOn

\* ============ OptimizedOneLakeMigrator (turbo and turbo_fixed) ============

TurboPrograms == {"turbo", "turbo_fixed"}

\* result.get("file", "unknown"): the name recorded for a result without a file
unknown == 0

\* init_progress
Turbo_init_progress == [completed_files |-> <<>>, failed_files |-> <<>>, stats |-> EmptyDict]

\* turbo: json.load is not guarded; turbo_fixed: "except: pass" and a fresh dictionary
Turbo_load_raises(d) == prog = "turbo" /\ d.kind = "torn"
Turbo_load_progress(d) == IF d.kind = "ok" THEN d.data ELSE Turbo_init_progress

\* remaining_files = [f for f in files if f["relative_path"] not in processed_files]
Turbo_remaining_files(store) ==
    SelectSeq(files, LAMBDA k : k \notin Range(store.completed_files))

\* batches = [remaining_files[i:i + batch_size] for i in range(0, len, batch_size)]
Turbo_num_batches(remaining) == total_batches(Len(remaining))
Turbo_batch(remaining, b) == Slice(remaining, b * batch_size, b * batch_size + batch_size)

\* the statistics of a run that starts from `store`
Turbo_fresh_stats(store) ==
    [total_files |-> Len(files),
     processed_files |-> Cardinality(Range(store.completed_files)),
     successful_uploads |-> Cardinality(Range(store.completed_files)),
     failed_uploads |-> 0, batches_completed |-> 0]

\* turbo: progress.get("stats", {...}) returns the stored value, which init_progress
\* sets to {}; turbo_fixed: "if not migration_stats" replaces an empty one
Turbo_initial_stats(store) ==
    IF prog = "turbo_fixed" /\ store.stats = EmptyDict
    THEN Turbo_fresh_stats(store) ELSE store.stats

\* migrate_batch_async: an exception becomes {"success": False, "error": ...}, no "file"
Turbo_migrate_batch_async(batch, o) ==
    [i \in 1..Len(batch) |->
        CASE o[batch[i]] = "ok"   -> [kind |-> "success", path |-> batch[i]]
          [] o[batch[i]] = "fail" -> [kind |-> "failed", path |-> batch[i]]
          [] OTHER                -> [kind |-> "exception", path |-> batch[i]]]

\* "for result in results": turbo reads result["file"], which a converted exception
\* lacks, so the KeyError ends the loop; turbo_fixed records the file "unknown"
RECURSIVE Turbo_process_results(_, _, _)
Turbo_process_results(store, results, n) ==
    IF results = <<>> THEN [store |-> store, applied |-> n, raised |-> FALSE]
    ELSE LET r == Head(results) IN
         CASE r.kind = "success" ->
                Turbo_process_results(
                    [store EXCEPT !.completed_files = Append(@, r.path)],
                    Tail(results), n + 1)
           [] r.kind = "failed" ->
                Turbo_process_results(
                    [store EXCEPT !.failed_files = Append(@, [file |-> r.path])],
                    Tail(results), n + 1)
           [] OTHER ->
                IF prog = "turbo"
                THEN [store |-> store, applied |-> n, raised |-> TRUE]
                ELSE Turbo_process_results(
                         [store EXCEPT !.failed_files = Append(@, [file |-> unknown])],
                         Tail(results), n + 1)

\* "Update stats": a dictionary without the counters raises KeyError
Turbo_stats_raise(stats) == "processed_files" \notin DOMAIN stats
Turbo_update_stats(stats, results) ==
    [stats EXCEPT !.processed_files = @ + Len(results),
                  !.successful_uploads = @ + Count(results, "success"),
                  !.failed_uploads = @ + Len(results) - Count(results, "success"),
                  !.batches_completed = @ + 1]

\* mutant: the progress is saved inside the loop for no batch
Turbo_save_due_never(b) == FALSE

\* "if batch_idx % 10 == 0"
Turbo_save_due(b) == b % SaveEvery = 0

\* migrate_files_optimized(resume=True) up to the batch loop
Turbo_migrate_files_optimized ==
    /\ prog \in TurboPrograms /\ pc \in Stopped /\ runs < max_runs
    /\ IF Turbo_load_raises(disk) THEN LoadRaised /\ UNCHANGED given
       ELSE LET loaded == Turbo_load_progress(disk)
                remaining == Turbo_remaining_files(loaded)
            IN /\ BeginRun(loaded)
               /\ tornLoad' = (tornLoad \/ disk.kind = "torn")
               /\ progress' = loaded
               /\ work' = remaining
               /\ batch_num' = 0
               /\ migration_stats' = IF remaining = <<>> THEN migration_stats
                                     ELSE Turbo_initial_stats(loaded)
               /\ pc' = IF remaining = <<>> THEN "done" ELSE "batch"
               /\ ret' = IF remaining = <<>> THEN "stats" ELSE "none"
               /\ UNCHANGED <<aside, wasKilled, disk, reissued, seen, stable>>

\* where the loop goes after batch b: the next batch, or the final save
Turbo_continue(b) ==
    /\ batch_num' = b + 1
    /\ pc' = IF b + 1 < Turbo_num_batches(work) THEN "batch" ELSE "save"

\* one pass of the loop body: the try block up to save_progress, or its except
Turbo_process_batch ==
    /\ prog \in TurboPrograms /\ pc = "batch"
    /\ \E o \in [Range(Turbo_batch(work, batch_num)) -> Outcomes] :
         LET results == Turbo_migrate_batch_async(Turbo_batch(work, batch_num), o)
             out == Turbo_process_results(progress, results, 0)
             failed == out.raised \/ Turbo_stats_raise(migration_stats)
         IN /\ progress' = out.store
            /\ NoteBatch(progress, results, o, out.applied)
            /\ migration_stats' = IF failed THEN migration_stats
                                  ELSE Turbo_update_stats(migration_stats, results)
            /\ IF ~failed /\ Turbo_save_due(batch_num)
               THEN pc' = "save" /\ batch_num' = batch_num
               ELSE Turbo_continue(batch_num)
    /\ UNCHANGED <<aside, wasKilled, disk, work, ret, runs, startCompleted, tornLoad, abort_cause>>

\* after save_progress: inside the loop its exception is caught by the batch's
\* except; the final save is not guarded, and turbo's final log line then reads a
\* counter that its statistics lack
Turbo_after_save(failed) ==
    IF batch_num < Turbo_num_batches(work)
    THEN Turbo_continue(batch_num) /\ GoOn /\ UNCHANGED ret
    ELSE IF failed THEN Abort("save")
    ELSE IF Turbo_stats_raise(migration_stats)
         THEN Abort("stats")
         ELSE /\ pc' = "done"
              /\ ret' = "stats"
              /\ GoOn /\ UNCHANGED batch_num

\* ======================== OneLakeMigrator (fabric) ========================

\* load_progress without a file
Fabric_Fresh == [completed_batches |-> <<>>, failed_files |-> <<>>, last_batch |-> 0]

\* json.load is not guarded
Fabric_load_raises(d) == d.kind = "torn"
Fabric_load_progress(d) == IF d.kind = "ok" THEN d.data ELSE Fabric_Fresh

\* "file_list.sort(key=lambda x: x["size_bytes"])": a stable sort, the files of
\* size v and more in ascending size, files of one size in the order of s
RECURSIVE Fabric_sort(_, _)
Fabric_sort(s, v) ==
    IF v > MaxSize THEN <<>>
    ELSE SelectSeq(s, LAMBDA k : sizes[k] = v) \o Fabric_sort(s, v + 1)

\* create_migration_batches: slices of the size-sorted file list
Fabric_file_list == Fabric_sort(files, 1)
Fabric_num_batches == total_batches(Len(files))
Fabric_batch(b) == Slice(Fabric_file_list, b * batch_size, b * batch_size + batch_size)

\* the loop over the files of one batch: upload_to_onelake catches every exception
\* and returns False
RECURSIVE Fabric_upload_files(_, _, _)
Fabric_upload_files(store, batch, o) ==
    IF batch = <<>> THEN store
    ELSE Fabric_upload_files(
             IF o[Head(batch)] = "ok" THEN store
             ELSE [store EXCEPT !.failed_files = Append(@, [file |-> Head(batch)])],
             Tail(batch), o)

\* migrate_files(resume=True) up to the batch loop: "batches[start_batch:]"
Fabric_migrate_files ==
    /\ prog = "fabric" /\ pc \in Stopped /\ runs < max_runs
    /\ IF Fabric_load_raises(disk) THEN LoadRaised /\ UNCHANGED given
       ELSE LET loaded == Fabric_load_progress(disk) IN
            /\ BeginRun(loaded)
            /\ progress' = loaded
            /\ work' = Fabric_file_list
            /\ batch_num' = loaded.last_batch
            /\ pc' = IF loaded.last_batch < Fabric_num_batches THEN "batch" ELSE "done"
            /\ ret' = IF loaded.last_batch < Fabric_num_batches THEN "none" ELSE "stats"
            /\ UNCHANGED <<aside, wasKilled, disk, migration_stats, reissued, seen, stable, tornLoad>>

\* one pass of the loop body up to the call of save_progress
Fabric_process_batch ==
    /\ prog = "fabric" /\ pc = "batch"
    /\ \E o \in [Range(Fabric_batch(batch_num)) -> Outcomes] :
         LET batch == Fabric_batch(batch_num)
             results == [i \in 1..Len(batch) |->
                            [kind |-> IF o[batch[i]] = "ok" THEN "success" ELSE "failed",
                             path |-> batch[i]]]
             uploaded == Fabric_upload_files(progress, batch, o)
         IN /\ progress' =
                  [uploaded EXCEPT
                      !.completed_batches =
                          IF \A i \in 1..Len(batch) : o[batch[i]] = "ok"
                          THEN Append(@, batch_num) ELSE @,
                      !.last_batch = batch_num + 1]
            /\ NoteBatch(progress, results, o, Len(results))
    /\ pc' = "save"
    /\ UNCHANGED <<aside, wasKilled, disk, batch_num, work, migration_stats, ret, runs,
                   startCompleted, tornLoad, abort_cause>>

\* after save_progress: its exception is not caught
Fabric_after_save(failed) ==
    IF failed THEN Abort("save")
    ELSE /\ batch_num' = batch_num + 1
         /\ pc' = IF batch_num + 1 < Fabric_num_batches THEN "batch" ELSE "done"
         /\ ret' = IF batch_num + 1 < Fabric_num_batches THEN ret ELSE "stats"
         /\ GoOn

\* =================== one batch of uploads, task by task ====================

UploadPrograms == {"production", "refresh"}

\* a coroutine of upload_batch: the request it is at (0: not started), whether
\* that request holds a connection of the connector, and its result
NewTask == [req |-> 0, on_wire |-> FALSE, result |-> "none"]
Finished(t) == t.result /= "none"

\* mutant: the results are collected as soon as one coroutine has finished
SomeFinished(t) == \E k \in DOMAIN t : Finished(t[k])

\* "await asyncio.gather(*tasks, return_exceptions=True)" returns
AllFinished(t) == \A k \in DOMAIN t : Finished(t[k])

\* connections of TCPConnector(limit=Config.MAX_CONCURRENT_UPLOADS) in use
Connections == Cardinality({k \in DOMAIN tasks : tasks[k].on_wire})

\* uploads whose create request has been sent and that have not finished
InFlight ==
    {k \in DOMAIN tasks : (tasks[k].on_wire \/ tasks[k].req >= 2) /\ ~Finished(tasks[k])}

Upload_batch_files ==
    IF prog = "production" THEN Prod_batch(batch_num) ELSE Refresh_batch(batch_num)

Upload_already_uploaded(k) ==
    IF prog = "production" THEN Prod_already_uploaded(progress, k)
    ELSE Refresh_already_uploaded(progress, k)

\* upload_batch creates one coroutine per file of the batch and gathers them
Upload_launch ==
    /\ prog \in UploadPrograms /\ pc = "batch"
    /\ tasks' = [k \in Range(Upload_batch_files) |-> NewTask]
    /\ pc' = "uploading"
    /\ UNCHANGED <<fixed, wasKilled, progress, disk, batch_num, work, migration_stats, ret,
                   runs, attempted, startCompleted, reissued, seen, stable, tornLoad,
                   unsaved, lastResults, lastApplied, abort_cause>>

\* what a step of a coroutine leaves alone
Upload_task_frame ==
    UNCHANGED <<fixed, wasKilled, pc, progress, disk, batch_num, work, migration_stats, ret,
                runs, attempted, startCompleted, reissued, seen, stable, tornLoad,
                unsaved, lastResults, lastApplied, abort_cause>>

\* a coroutine runs up to its first request: the skipped result for a completed
\* file, else the file is read and the create request waits for a connection;
\* an exception outside the try block ends the coroutine
Upload_task_start ==
    /\ pc = "uploading"
    /\ \E k \in DOMAIN tasks :
         /\ tasks[k].req = 0 /\ ~Finished(tasks[k])
         /\ \/ /\ Upload_already_uploaded(k)
               /\ tasks' = [tasks EXCEPT ![k].result = "skipped"]
            \/ /\ ~Upload_already_uploaded(k)
               /\ \/ tasks' = [tasks EXCEPT ![k].req = 1]
                  \/ tasks' = [tasks EXCEPT ![k].result = "raise"]
    /\ Upload_task_frame

\* "async with session.put/patch(...)": the request gets a connection when the
\* connector has one free
Upload_task_send ==
    /\ pc = "uploading"
    /\ Connections < MaxConcurrent
    /\ \E k \in DOMAIN tasks :
         /\ tasks[k].req >= 1 /\ ~tasks[k].on_wire /\ ~Finished(tasks[k])
         /\ tasks' = [tasks EXCEPT ![k].on_wire = TRUE]
    /\ Upload_task_frame

\* the response arrives and the connection goes back to the connector: a bad
\* status ends the upload as failed, a good one leads to the next request, and
\* after the flush to the success result
Upload_task_response ==
    /\ pc = "uploading"
    /\ \E k \in DOMAIN tasks :
         /\ tasks[k].on_wire
         /\ \/ tasks' = [tasks EXCEPT ![k].on_wire = FALSE, ![k].result = "fail"]
            \/ /\ tasks[k].req < NumRequests
               /\ tasks' = [tasks EXCEPT ![k].on_wire = FALSE, ![k].req = @ + 1]
            \/ /\ tasks[k].req = NumRequests
               /\ tasks' = [tasks EXCEPT ![k].on_wire = FALSE, ![k].result = "ok"]
    /\ Upload_task_frame

\* how each upload of the gathered batch ended
Upload_outcomes ==
    [k \in DOMAIN tasks |->
        IF tasks[k].result \in Outcomes THEN tasks[k].result
        ELSE IF tasks[k].result = "skipped" THEN "ok" ELSE "raise"]

\* gather returns and the results are applied
Upload_gather ==
    /\ prog \in UploadPrograms /\ pc = "uploading"
    /\ AllFinished(tasks)
    /\ IF prog = "production" THEN Prod_apply_batch(Upload_outcomes)
       ELSE Refresh_apply_batch(Upload_outcomes)
    /\ tasks' = [k \in {j \in DOMAIN tasks : ~Finished(tasks[j])} |-> tasks[k]]

\* the process is killed while the batch is uploading
Upload_kill ==
    /\ pc = "uploading"
    /\ pc' = "killed"
    /\ tasks' = <<>>
    /\ EndProcess
    /\ wasKilled' = TRUE
    /\ UNCHANGED <<fixed, disk, ret, runs, attempted, startCompleted,
                   reissued, seen, stable, tornLoad, unsaved, abort_cause>>

\* ============================ the progress file ===========================

\* what json.dump writes; the turbo programs set progress["stats"] = migration_stats
\* right before they save
Snapshot ==
    IF prog \in {"turbo", "turbo_fixed"}
    THEN [progress EXCEPT !.stats = migration_stats] ELSE progress

AfterSave(failed) ==
    CASE prog = "production" -> Prod_after_save(failed)
      [] prog = "refresh" -> Refresh_after_save(failed)
      [] prog = "complete" -> Complete_after_save(failed)
      [] prog \in TurboPrograms -> Turbo_after_save(failed)
      [] prog = "fabric" -> Fabric_after_save(failed)

\* save_progress: open(PROGRESS_FILE, 'w') truncates the file
SaveOpen ==
    /\ pc = "save"
    /\ disk' = Torn
    /\ pc' = "mid_save"
    /\ unsaved' = 0
    /\ UNCHANGED <<aside, wasKilled, progress, batch_num, work, migration_stats, ret, runs,
                   attempted, startCompleted, reissued, seen, stable, tornLoad,
                   lastResults, lastApplied, abort_cause>>

\* save_progress: open raises (permission error), the file is untouched
SaveOpenFails ==
    /\ pc = "save"
    /\ AfterSave(TRUE)
    /\ unsaved' = 0
    /\ UNCHANGED <<aside, wasKilled, disk, runs, attempted,
                   startCompleted, reissued, seen, stable, tornLoad>>

\* save_progress: json.dump writes the whole dictionary and the file is closed
SaveDump ==
    /\ pc = "mid_save"
    /\ disk' = OnDisk(Snapshot)
    /\ AfterSave(FALSE)
    /\ UNCHANGED <<aside, wasKilled, runs, attempted, startCompleted,
                   reissued, seen, stable, tornLoad, unsaved>>

\* save_progress: json.dump raises part-way (disk full), the file stays cut short
SaveDumpFails ==
    /\ pc = "mid_save"
    /\ AfterSave(TRUE)
    /\ UNCHANGED <<aside, wasKilled, disk, runs, attempted,
                   startCompleted, reissued, seen, stable, tornLoad, unsaved>>

\* the process is killed; what it held in memory is gone
Kill ==
    /\ pc \in Running
    /\ pc' = IF pc = "mid_save" THEN "killed_in_save" ELSE "killed"
    /\ EndProcess
    /\ wasKilled' = TRUE
    /\ UNCHANGED <<aside, disk, ret, runs, attempted, startCompleted,
                   reissued, seen, stable, tornLoad, unsaved, abort_cause>>

\* ============================== specification =============================

\* what every specification starts from: no process, no progress file
Start ==
    /\ pc = "idle"
    /\ progress = NoStore
    /\ disk = Absent
    /\ batch_num = 0
    /\ work = <<>>
    /\ migration_stats = EmptyDict
    /\ ret = "none"
    /\ runs = 0
    /\ attempted = {}
    /\ startCompleted = {}
    /\ reissued = {}
    /\ seen = [k \in Files |-> "none"]
    /\ stable = TRUE
    /\ tornLoad = FALSE
    /\ unsaved = 0
    /\ lastResults = <<>>
    /\ lastApplied = 0
    /\ abort_cause = "none"
    /\ wasKilled = FALSE
    /\ tasks = <<>>
    /\ given = Sound
    /\ dpc = "idle"
    /\ idx = 0
    /\ dl_results = NoResults
    /\ total_processed = 0
    /\ local = {}
    /\ progress_file = NoFile
    /\ workers = <<>>
    /\ progress_lock = 0
    /\ at_start = [processed |-> 0, success |-> 0, failed |-> 0]
    /\ call = NoCall
    /\ backup = {}

Init ==
    /\ prog \in Programs
    /\ batch_size = BatchSize
    /\ max_runs = MaxRuns
    /\ sizes = [k \in Files |-> 1]
    /\ Start

Next ==
    \/ Prod_migrate_files
    \/ Prod_process_batch
    \/ Refresh_run_migration
    \/ Refresh_process_batch
    \/ Complete_run_complete_migration
    \/ Complete_process_batch
    \/ Turbo_migrate_files_optimized
    \/ Turbo_process_batch
    \/ Fabric_migrate_files
    \/ Fabric_process_batch
    \/ SaveOpen
    \/ SaveOpenFails
    \/ SaveDump
    \/ SaveDumpFails
    \/ Kill

Spec == Init /\ [][Next]_vars

\* a specification of the two programs that checkpoint inside the loop, with batches
\* of one file, so that a run of the bounded file list has more than two batches
InitUnitBatches ==
    /\ prog \in {"production", "turbo_fixed"}
    /\ batch_size = 1
    /\ max_runs = MaxRuns
    /\ sizes = [k \in Files |-> 1]
    /\ Start

NextUnitBatches ==
    \/ Prod_migrate_files
    \/ Prod_process_batch
    \/ Turbo_migrate_files_optimized
    \/ Turbo_process_batch
    \/ SaveOpen
    \/ SaveOpenFails
    \/ SaveDump
    \/ SaveDumpFails
    \/ Kill

SpecUnitBatches == InitUnitBatches /\ [][NextUnitBatches]_vars

\* the three programs that cut their batches in their own code, fabric over
\* every assignment of sizes to the files
BatchPrograms == {"turbo_fixed", "production", "fabric"}

InitBatches ==
    /\ prog \in BatchPrograms
    /\ batch_size = BatchSize
    /\ max_runs = MaxRuns
    /\ sizes \in IF prog = "fabric" THEN [Files -> 1..MaxSize]
                 ELSE {[k \in Files |-> 1]}
    /\ Start

NextBatches ==
    \/ Prod_migrate_files
    \/ Prod_process_batch
    \/ Turbo_migrate_files_optimized
    \/ Turbo_process_batch
    \/ Fabric_migrate_files
    \/ Fabric_process_batch
    \/ SaveOpen
    \/ SaveOpenFails
    \/ SaveDump
    \/ SaveDumpFails
    \/ Kill

SpecBatches == InitBatches /\ [][NextBatches]_vars

\* the uploaders with upload_batch followed coroutine by coroutine, over one
\* run fewer than the batch-level specification follows
InitUploads ==
    /\ prog \in UploadPrograms
    /\ batch_size = BatchSize
    /\ max_runs = MaxRuns - 1
    /\ sizes = [k \in Files |-> 1]
    /\ Start

NextUploads ==
    \/ Prod_migrate_files
    \/ Refresh_run_migration
    \/ Upload_launch
    \/ Upload_task_start
    \/ Upload_task_send
    \/ Upload_task_response
    \/ Upload_gather
    \/ Upload_kill
    \/ SaveOpen
    \/ SaveOpenFails
    \/ SaveDump
    \/ SaveDumpFails
    \/ Kill

SpecUploads == InitUploads /\ [][NextUploads]_vars

\* the three uploaders started over whatever token and file cache are there
PreconditionPrograms == {"production", "refresh", "complete"}

InitPreconditions ==
    /\ prog \in PreconditionPrograms
    /\ batch_size = BatchSize
    /\ max_runs = MaxRuns
    /\ sizes = [k \in Files |-> 1]
    /\ Start

NextPreconditions ==
    \/ Prod_migrate_files_any
    \/ Prod_process_batch
    \/ Refresh_run_migration_any
    \/ Refresh_process_batch
    \/ Complete_run_complete_migration_any
    \/ Complete_process_batch
    \/ SaveOpen
    \/ SaveOpenFails
    \/ SaveDump
    \/ SaveDumpFails
    \/ Kill

SpecPreconditions == InitPreconditions /\ [][NextPreconditions]_vars

\* ================== the SharePoint downloaders (dll_pdf_fabric*) ==================

DownloadPrograms == {"download", "download_turbo"}
DStopped == {"idle", "done", "interrupted", "killed"}
DownloadOutcomes == {"success", "failed"}

\* what no step of a downloader changes
migrator == <<given, wasKilled, pc, progress, disk, batch_num, work, migration_stats, ret,
              attempted, startCompleted, reissued, seen, stable, tornLoad, unsaved,
              lastResults, lastApplied, abort_cause, tasks>>

\* "Load previous progress": the results and the index the run starts from
Download_load ==
    IF progress_file.exists /\ progress_file /= TornFile
    THEN [results |-> progress_file.results,
          start_index |-> progress_file.last_processed_index + 1]
    ELSE [results |-> NoResults, start_index |-> 0]

\* the progress file with last_processed_index n and the results r
Download_dump(n, r) == [exists |-> TRUE, last_processed_index |-> n, results |-> r]

\* results after `append` of the result of file f
Download_append(r, f, status) ==
    IF status = "success" THEN [r EXCEPT !.success = Append(@, f)]
    ELSE [r EXCEPT !.failed = Append(@, f)]

\* a save after every result
Save_due_each(n) == n > 0

\* "Save progress every 100 files" / "every 1000 files": the count is a multiple
Save_due(n) == n % SaveInterval = 0

\* the indices of file_list[start:], in order (file_list[i] is files[i + 1])
IndicesFrom(start) == [k \in 1..(IF start < NumFiles THEN NumFiles - start ELSE 0) |-> start + k - 1]

\* ---- download_all_files: one file after the other ----

\* download_all_files up to the loop
download_all_files_start ==
    /\ prog = "download" /\ dpc \in DStopped /\ runs < max_runs
    /\ runs' = runs + 1
    /\ dl_results' = Download_load.results
    /\ idx' = Download_load.start_index
    /\ dpc' = "run"
    /\ UNCHANGED <<inputs, migrator, total_processed, local, progress_file, workers,
                   progress_lock, at_start>>

\* one pass of the loop body: an existing file is recorded as skipped and the
\* pass ends (continue); another is downloaded, recorded, and every
\* SaveInterval-th index is followed by a save
download_all_files_step ==
    /\ prog = "download" /\ dpc = "run" /\ idx < NumFiles
    /\ idx' = idx + 1
    /\ IF files[idx + 1] \in local
       THEN /\ dl_results' = Download_append(dl_results, files[idx + 1], "success")
            /\ UNCHANGED <<local, progress_file>>
       ELSE \E status \in DownloadOutcomes :
              /\ dl_results' = Download_append(dl_results, files[idx + 1], status)
              /\ local' = IF status = "success" THEN local \cup {files[idx + 1]} ELSE local
              /\ progress_file' = IF Save_due(idx + 1)
                                  THEN Download_dump(idx, dl_results')
                                  ELSE progress_file
    /\ UNCHANGED <<inputs, migrator, runs, dpc, total_processed, workers, progress_lock, at_start>>

\* KeyboardInterrupt during the pass for index i: "last_processed_index": i
download_all_files_interrupt ==
    /\ prog = "download" /\ dpc = "run" /\ idx < NumFiles
    /\ progress_file' = Download_dump(idx, dl_results)
    /\ dpc' = "interrupted"
    /\ UNCHANGED <<inputs, migrator, runs, idx, dl_results, total_processed, local, workers,
                   progress_lock, at_start>>

\* after the loop: "if progress_file.exists(): progress_file.unlink()"
download_all_files_finish ==
    /\ prog = "download" /\ dpc = "run" /\ idx >= NumFiles
    /\ progress_file' = NoFile
    /\ dpc' = "done"
    /\ UNCHANGED <<inputs, migrator, runs, idx, dl_results, total_processed, local, workers,
                   progress_lock, at_start>>

\* ---- download_all_files_turbo: a pool of download_worker threads ----

NewWorker(i) == [index |-> i, state |-> "queued", status |-> "none", reg |-> 0]

\* the tasks a thread of the pool is running
Active == {w \in DOMAIN workers : workers[w].state \notin {"queued", "returned", "raised"}}

\* every task has ended: it recorded its result and returned it, or its
\* "except Exception" returned a failed result that nothing records
AllReturned == \A w \in DOMAIN workers : workers[w].state \in {"returned", "raised"}

\* the block entered whoever holds the lock (what the lock prevents)
progress_lock_ignored == progress_lock \in 0..NumFiles

\* "with progress_lock:" can be entered
progress_lock_free == progress_lock = 0

\* download_all_files_turbo up to the submission of the tasks: the load, the
\* filter of the files that exist already, the counters
download_all_files_turbo_start ==
    /\ prog = "download_turbo" /\ dpc \in DStopped /\ runs < max_runs
    /\ runs' = runs + 1
    /\ LET from == IndicesFrom(Download_load.start_index)
           remaining_files == SelectSeq(from, LAMBDA i : files[i + 1] \notin local)
           skipped == SelectSeq(from, LAMBDA i : files[i + 1] \in local)
           loaded == Download_load.results
           r == [loaded EXCEPT !.success = @ \o [k \in DOMAIN skipped |-> files[skipped[k] + 1]]]
       IN /\ dl_results' = r
          /\ total_processed' = Len(r.success)
          /\ workers' = [k \in DOMAIN remaining_files |-> NewWorker(remaining_files[k])]
          /\ at_start' = [processed |-> Len(r.success), success |-> Len(r.success),
                          failed |-> Len(r.failed)]
    /\ progress_lock' = 0
    /\ dpc' = "run"
    /\ UNCHANGED <<inputs, migrator, idx, local, progress_file>>

\* a thread of the pool takes the submitted task that has waited longest
download_worker_run ==
    /\ prog = "download_turbo" /\ dpc \in {"run", "draining"}
    /\ Cardinality(Active) < MaxWorkers
    /\ \E w \in DOMAIN workers :
         /\ workers[w].state = "queued"
         /\ \A v \in 1..(w - 1) : workers[v].state /= "queued"
         /\ workers' = [workers EXCEPT ![w].state = "downloading"]
    /\ UNCHANGED <<inputs, migrator, runs, dpc, idx, dl_results, total_processed, local,
                   progress_file, progress_lock, at_start>>

\* download_file_safely_turbo returns its result
download_worker_download ==
    /\ prog = "download_turbo"
    /\ \E w \in DOMAIN workers, status \in DownloadOutcomes :
         /\ workers[w].state = "downloading"
         /\ workers' = [workers EXCEPT ![w].state = "waiting", ![w].status = status]
         /\ local' = IF status = "success" THEN local \cup {files[workers[w].index + 1]}
                     ELSE local
    /\ UNCHANGED <<inputs, migrator, runs, dpc, idx, dl_results, total_processed,
                   progress_file, progress_lock, at_start>>

\* download_file_safely_turbo raises (mkdir, a missing key of file_info): the
\* worker's "except Exception" logs and returns a failed result
download_worker_raise ==
    /\ prog = "download_turbo"
    /\ \E w \in DOMAIN workers :
         /\ workers[w].state = "downloading"
         /\ workers' = [workers EXCEPT ![w].state = "raised", ![w].status = "failed"]
    /\ UNCHANGED <<inputs, migrator, runs, dpc, idx, dl_results, total_processed, local,
                   progress_file, progress_lock, at_start>>

\* "with progress_lock:" is entered and total_processed is read for the "+= 1"
download_worker_lock ==
    /\ prog = "download_turbo"
    /\ progress_lock_free
    /\ \E w \in DOMAIN workers :
         /\ workers[w].state = "waiting"
         /\ workers' = [workers EXCEPT ![w].state = "locked", ![w].reg = total_processed]
         /\ progress_lock' = w
    /\ UNCHANGED <<inputs, migrator, runs, dpc, idx, dl_results, total_processed, local,
                   progress_file, at_start>>

\* the rest of the block: the counter is stored, the result appended, every
\* SaveInterval-th result followed by a save; the lock is released
download_worker_record ==
    /\ prog = "download_turbo"
    /\ \E w \in DOMAIN workers :
         /\ workers[w].state = "locked"
         /\ total_processed' = workers[w].reg + 1
         /\ dl_results' = Download_append(dl_results, files[workers[w].index + 1], workers[w].status)
         /\ progress_file' = IF Save_due(workers[w].reg + 1)
                             THEN Download_dump(workers[w].index, dl_results')
                             ELSE progress_file
         /\ workers' = [workers EXCEPT ![w].state = "returned"]
    /\ progress_lock' = 0
    /\ UNCHANGED <<inputs, migrator, runs, dpc, idx, local, at_start>>

\* KeyboardInterrupt in the main thread, inside "with ThreadPoolExecutor": the
\* exit of the block waits for every submitted task
download_all_files_turbo_interrupt ==
    /\ prog = "download_turbo" /\ dpc = "run"
    /\ dpc' = "draining"
    /\ UNCHANGED <<inputs, migrator, runs, idx, dl_results, total_processed, local,
                   progress_file, workers, progress_lock, at_start>>

\* "except KeyboardInterrupt": "last_processed_index": total_processed, then raise
download_all_files_turbo_saved ==
    /\ prog = "download_turbo" /\ dpc = "draining" /\ AllReturned
    /\ progress_file' = Download_dump(total_processed, dl_results)
    /\ dpc' = "interrupted"
    /\ UNCHANGED <<inputs, migrator, runs, idx, dl_results, total_processed, local,
                   workers, progress_lock, at_start>>

\* every task has returned: the progress file is removed if nothing failed
download_all_files_turbo_finish ==
    /\ prog = "download_turbo" /\ dpc = "run" /\ AllReturned
    /\ progress_file' = IF Len(dl_results.failed) = 0 THEN NoFile ELSE progress_file
    /\ dpc' = "done"
    /\ UNCHANGED <<inputs, migrator, runs, idx, dl_results, total_processed, local,
                   workers, progress_lock, at_start>>

\* the process is killed while the pool works or drains: its threads and what
\* it held in memory are gone, the progress file is what the last save wrote
download_all_files_turbo_kill ==
    /\ prog = "download_turbo" /\ dpc \in {"run", "draining"}
    /\ dpc' = "killed"
    /\ workers' = <<>>
    /\ progress_lock' = 0
    /\ dl_results' = NoResults
    /\ total_processed' = 0
    /\ at_start' = [processed |-> 0, success |-> 0, failed |-> 0]
    /\ UNCHANGED <<inputs, migrator, runs, idx, local, progress_file>>

InitDownload ==
    /\ prog \in DownloadPrograms
    /\ batch_size = BatchSize
    /\ max_runs = MaxRuns
    /\ sizes = [k \in Files |-> 1]
    /\ Start

NextDownload ==
    \/ download_all_files_start
    \/ download_all_files_step
    \/ download_all_files_interrupt
    \/ download_all_files_finish
    \/ download_all_files_turbo_start
    \/ download_worker_run
    \/ download_worker_download
    \/ download_worker_raise
    \/ download_worker_lock
    \/ download_worker_record
    \/ download_all_files_turbo_interrupt
    \/ download_all_files_turbo_saved
    \/ download_all_files_turbo_finish
    \/ download_all_files_turbo_kill

SpecDownload == InitDownload /\ [][NextDownload]_vars

\* ---- simple_retry_failed.py: the failed list is cleared for a retry ----

\* the write that raises in one call of clear_failed_files_status, if any
Faults == {"none", "backup", "progress"}

\* progress_data after "progress_data['results']['failed'] = []" (of the keys
\* the function sets, the downloader reads results and last_processed_index)
Clear_failed(progress_data) == [progress_data EXCEPT !.results.failed = <<>>]

\* clear_failed_files_status that goes on to the progress file although the
\* backup could not be written
Retry_clear_unguarded(file, fault) ==
    IF ~file.exists \/ file = TornFile \/ fault = "progress"
    THEN [progress_file |-> file, backup |-> backup, ret |-> FALSE]
    ELSE [progress_file |-> Clear_failed(file),
          backup |-> IF fault = "backup" THEN backup ELSE backup \cup {file},
          ret |-> TRUE]

\* clear_failed_files_status(progress_file): the progress file and the backup
\* files it leaves and the value it returns. Every exception ends in
\* "return False"; open(..., 'w') has emptied the progress file when its dump fails
Retry_clear(file, fault) ==
    IF ~file.exists \/ file = TornFile
    THEN [progress_file |-> file, backup |-> backup, ret |-> FALSE]
    ELSE IF file.results.failed = <<>> \/ fault = "backup"
    THEN [progress_file |-> file, backup |-> backup, ret |-> FALSE]
    ELSE IF fault = "progress"
    THEN [progress_file |-> TornFile, backup |-> backup \cup {file}, ret |-> FALSE]
    ELSE [progress_file |-> Clear_failed(file), backup |-> backup \cup {file}, ret |-> TRUE]

\* the operator runs the retry tool while no download runs (one call of it is
\* followed in a behaviour)
clear_failed_files_status ==
    /\ prog = "download_turbo" /\ dpc \in DStopped /\ ~call.made
    /\ \E fault \in Faults :
         LET o == Retry_clear(progress_file, fault)
         IN /\ progress_file' = o.progress_file
            /\ backup' = o.backup
            /\ call' = [made |-> TRUE, arg |-> progress_file, fault |-> fault,
                        out |-> o.ret, at |-> runs]
    /\ UNCHANGED <<prog, batch_size, sizes, max_runs, runs, migrator, dpc, idx, dl_results,
                   total_processed, local, workers, progress_lock, at_start>>

InitRetry ==
    /\ prog = "download_turbo"
    /\ batch_size = BatchSize
    /\ max_runs = MaxRuns
    /\ sizes = [k \in Files |-> 1]
    /\ Start

NextRetry ==
    \/ download_all_files_turbo_start
    \/ download_worker_run
    \/ download_worker_download
    \/ download_worker_lock
    \/ download_worker_record
    \/ download_all_files_turbo_interrupt
    \/ download_all_files_turbo_saved
    \/ download_all_files_turbo_finish
    \/ download_all_files_turbo_kill
    \/ clear_failed_files_status

SpecRetry == InitRetry /\ [][NextRetry]_vars

\* ---- retry_failed_downloads.py: the failed files are downloaded again ----

\* what one entry of the failed list meets: its URL cannot be regenerated (the
\* entry is skipped), or download_file_safely_turbo returns success or failed
RetryAnswers == {"no_url", "success", "failed"}

\* the step of update_progress_file that raises in one call, if any
UpdateFaults == {"none", "load", "dump"}

\* retry_failed_downloads(failed_files, ...): one retry for every entry of the
\* list that has a URL, in order; a file that is on disk is skipped as a success
RECURSIVE Retry_failed_downloads(_, _, _, _)
Retry_failed_downloads(failed_files, answers, i, acc) ==
    IF i > Len(failed_files) THEN acc
    ELSE LET f == failed_files[i] IN
         Retry_failed_downloads(failed_files, answers, i + 1,
            IF answers[i] = "no_url" THEN acc
            ELSE IF f \in acc.local \/ answers[i] = "success"
            THEN [acc EXCEPT !.successful_retries = Append(@, f), !.local = @ \cup {f}]
            ELSE [acc EXCEPT !.still_failed = Append(@, f)])

\* update_progress_file(progress_file, successful_retries, still_failed, ...): the
\* file it leaves and the value it returns. Every exception ends in "return
\* False"; open(..., 'w') has emptied the file when the dump fails
Update_progress_file(file, successful_retries, still_failed, fault) ==
    IF ~file.exists \/ file = TornFile \/ fault = "load"
    THEN [progress_file |-> file, ret |-> FALSE]
    ELSE IF fault = "dump"
    THEN [progress_file |-> TornFile, ret |-> FALSE]
    ELSE LET retry_paths == Range(successful_retries \o still_failed)
             updated_failed ==
                 SelectSeq(file.results.failed, LAMBDA f : f \notin retry_paths)
                     \o still_failed
             current_success == file.results.success \o successful_retries
         IN [progress_file |->
                [exists |-> TRUE,
                 last_processed_index |-> file.last_processed_index,
                 results |-> [success |-> current_success, failed |-> updated_failed],
                 downloaded_count |-> Len(current_success),
                 failed_count |-> Len(updated_failed)],
             ret |-> TRUE]

\* main of the retry tool, run while no download runs: it returns early without
\* a readable progress file or without failed entries (one call of it is
\* followed in a behaviour)
retry_failed_downloads_main ==
    /\ prog = "download_turbo" /\ dpc \in DStopped /\ ~call.made
    /\ progress_file.exists /\ progress_file /= TornFile
    /\ progress_file.results.failed /= <<>>
    /\ \E answers \in [1..Len(progress_file.results.failed) -> RetryAnswers],
          fault \in UpdateFaults :
         LET r == Retry_failed_downloads(progress_file.results.failed, answers, 1,
                     [successful_retries |-> <<>>, still_failed |-> <<>>,
                      local |-> local])
             o == Update_progress_file(progress_file, r.successful_retries,
                                       r.still_failed, fault)
         IN /\ progress_file' = o.progress_file
            /\ local' = r.local
            /\ call' = [made |-> TRUE, arg |-> progress_file,
                        successful_retries |-> r.successful_retries,
                        still_failed |-> r.still_failed, fault |-> fault,
                        out |-> o.ret, after |-> o.progress_file, at |-> runs]
    /\ UNCHANGED <<prog, batch_size, sizes, max_runs, runs, migrator, dpc, idx, dl_results,
                   total_processed, workers, progress_lock, at_start, backup>>

NextUpdate ==
    \/ download_all_files_turbo_start
    \/ download_worker_run
    \/ download_worker_download
    \/ download_worker_lock
    \/ download_worker_record
    \/ download_all_files_turbo_interrupt
    \/ download_all_files_turbo_saved
    \/ download_all_files_turbo_finish
    \/ download_all_files_turbo_kill
    \/ retry_failed_downloads_main

SpecUpdate == InitRetry /\ [][NextUpdate]_vars

\* ---- the two ways of checkpointing side by side ----

\* production, upload by upload, and the turbo downloader, worker by worker
SnapshotPrograms == {"production", "download_turbo"}

InitSnapshots ==
    /\ prog \in SnapshotPrograms
    /\ batch_size = BatchSize
    /\ max_runs = MaxRuns - 1
    /\ sizes = [k \in Files |-> 1]
    /\ Start

NextSnapshots ==
    \/ Prod_migrate_files
    \/ Upload_launch
    \/ Upload_task_start
    \/ Upload_task_send
    \/ Upload_task_response
    \/ Upload_gather
    \/ Upload_kill
    \/ SaveOpen
    \/ SaveOpenFails
    \/ SaveDump
    \/ SaveDumpFails
    \/ Kill
    \/ download_all_files_turbo_start
    \/ download_worker_run
    \/ download_worker_download
    \/ download_worker_raise
    \/ download_worker_lock
    \/ download_worker_record
    \/ download_all_files_turbo_interrupt
    \/ download_all_files_turbo_saved
    \/ download_all_files_turbo_finish
    \/ download_all_files_turbo_kill

SpecSnapshots == InitSnapshots /\ [][NextSnapshots]_vars

\* ===================== one transfer, request by request =====================

\* everything but the function call that is followed on its own
programs == <<prog, batch_size, sizes, max_runs, runs, migrator, downloader>>

TransferPrograms == {"production", "turbo_working", "turbo_fixed", "refresh", "complete",
                     "download_turbo"}
RefreshPrograms == {"refresh", "complete"}

\* the HTTP status codes a request is answered with
Codes == {200, 201, 202, 401, 409, 500}

\* the statuses each program takes for success, by step (create, append, flush)
Accepts(p, i) ==
    IF p \in RefreshPrograms THEN <<{201, 409}, {202}, {200}>>[i]
    ELSE <<{200, 201}, {200, 202}, {200, 201}>>[i]

\* the request of step i: turbo_fixed puts to the bare upload_url
Req(p, i, size, tok) ==
    [method |-> IF i = 1 THEN "PUT" ELSE "PATCH",
     query |-> CASE i = 1 -> IF p = "turbo_fixed" THEN "" ELSE "resource=file"
                 [] i = 2 -> "action=append"
                 [] OTHER -> "action=flush",
     position |-> IF i = 3 THEN size ELSE 0,
     token |-> tok]

Returns(reqs, res, n) == [requests |-> reqs, result |-> res, refreshes |-> n]

\* upload_file_async of production and turbo_working stops after create when
\* the file is empty; turbo_fixed always takes the three steps
Async_last(p, a) == IF a.size = 0 /\ p /= "turbo_fixed" THEN 1 ELSE 3

\* upload_file_async from step i on: a status outside the accepted ones ends it
RECURSIVE Async_steps(_, _, _)
Async_steps(p, a, i) ==
    IF i > Async_last(p, a) THEN Returns(<<>>, "success", 0)
    ELSE IF a.server[i][1] \in Accepts(p, i)
    THEN LET rest == Async_steps(p, a, i + 1)
         IN Returns(<<Req(p, i, a.size, 0)>> \o rest.requests, rest.result, 0)
    ELSE Returns(<<Req(p, i, a.size, 0)>>, "failed", 0)

\* upload_file_async: production first looks the path up in completed_files
Wire_upload_file_async(p, a) ==
    IF p = "production" /\ a.recorded THEN Returns(<<>>, "skipped", 0)
    ELSE Async_steps(p, a, 1)

\* upload_file_to_onelake from step i on, with token number tok; `stale` says
\* is_token_expired() is true. On 401 ensure_valid_token refreshes only a
\* stale token, and the request is sent once more
RECURSIVE Onelake_steps(_, _, _, _, _)
Onelake_steps(p, a, i, tok, stale) ==
    IF i > 3 THEN Returns(<<>>, "success", 0)
    ELSE LET first == Req(p, i, a.size, tok)
         IN IF a.server[i][1] = 401
            THEN IF stale /\ ~a.refresh_ok THEN Returns(<<first>>, "failed", 1)
                 ELSE LET tok2 == IF stale THEN tok + 1 ELSE tok
                          n == IF stale THEN 1 ELSE 0
                          second == Req(p, i, a.size, tok2)
                      IN IF a.server[i][2] \in Accepts(p, i)
                         THEN LET rest == Onelake_steps(p, a, i + 1, tok2, FALSE)
                              IN Returns(<<first, second>> \o rest.requests, rest.result,
                                         n + rest.refreshes)
                         ELSE Returns(<<first, second>>, "failed", n)
            ELSE IF a.server[i][1] \in Accepts(p, i)
            THEN LET rest == Onelake_steps(p, a, i + 1, tok, stale)
                 IN Returns(<<first>> \o rest.requests, rest.result, rest.refreshes)
            ELSE Returns(<<first>>, "failed", 0)

\* upload_file_to_onelake: the look-up in completed_files, ensure_valid_token,
\* then the three steps
Wire_upload_file_to_onelake(p, a) ==
    IF a.recorded THEN Returns(<<>>, "skipped", 0)
    ELSE IF a.age = "expired"
    THEN IF a.refresh_ok
         THEN LET rest == Onelake_steps(p, a, 1, 1, FALSE)
              IN Returns(rest.requests, rest.result, 1 + rest.refreshes)
         ELSE Returns(<<>>, "failed", 1)
    ELSE Onelake_steps(p, a, 1, 0, a.age = "expiring")

\* download_file_safely_turbo: nothing is fetched when the local file exists;
\* else up to max_retries = 2 attempts
Wire_download_file_safely_turbo(a) ==
    LET get == [method |-> "GET", query |-> "", position |-> 0, token |-> 0]
    IN IF a.at_destination THEN Returns(<<>>, "skipped", 0)
       ELSE IF a.server[1][1] = 200 THEN Returns(<<get>>, "success", 0)
       ELSE IF a.server[2][1] = 200 THEN Returns(<<get, get>>, "success", 0)
       ELSE Returns(<<get, get>>, "failed", 0)

Transfer(p, a) ==
    CASE p \in RefreshPrograms -> Wire_upload_file_to_onelake(p, a)
      [] p = "download_turbo" -> Wire_download_file_safely_turbo(a)
      [] OTHER -> Wire_upload_file_async(p, a)

\* what the server answers to the requests of one step: one status, or 401 and
\* the status of the request sent again
Exchanges(p) ==
    IF p \in RefreshPrograms
    THEN {<<c>> : c \in Codes \ {401}} \cup {<<401, c>> : c \in Codes}
    ELSE {<<c>> : c \in Codes}

\* the arguments and circumstances of one transfer
TransferArgs(p) ==
    [recorded : BOOLEAN,            \* the path is in completed_files
     at_destination : BOOLEAN,      \* the destination holds the item
     size : {0, MaxSize},
     server : [1..3 -> Exchanges(p)],
     age : IF p \in RefreshPrograms THEN {"fresh", "expiring", "expired"} ELSE {"fresh"},
     refresh_ok : IF p \in RefreshPrograms THEN BOOLEAN ELSE {TRUE}]

\* the transfer function is called once and returns
transfer_call ==
    /\ prog \in TransferPrograms /\ ~call.made
    /\ \E a \in TransferArgs(prog) :
         call' = [made |-> TRUE, arg |-> a, out |-> Transfer(prog, a)]
    /\ UNCHANGED <<programs, backup>>

InitTransfer ==
    /\ prog \in TransferPrograms
    /\ batch_size = BatchSize
    /\ max_runs = MaxRuns
    /\ sizes = [k \in Files |-> 1]
    /\ Start

SpecTransfer == InitTransfer /\ [][transfer_call]_vars

\* ================== --start-batch and --max-batches ==================

RangePrograms == {"production", "refresh"}

\* an optional argument: None, or an integer
NotGiven == [given |-> FALSE, value |-> 0]
Given(n) == [given |-> TRUE, value |-> n]

\* "if max_batches": None is false, and so is 0
Truthy(max_batches) == max_batches.given /\ max_batches.value /= 0

\* range(a, b)
PyRange(a, b) == [k \in 1..(IF b > a THEN b - a ELSE 0) |-> a + k - 1]

\* migrate_files: the values batch_num takes, numbered from 0
Prod_batch_nums(len, start_batch, max_batches) ==
    LET end_batch == IF Truthy(max_batches)
                     THEN Min(total_batches(len), start_batch + max_batches.value)
                     ELSE total_batches(len)
    IN PyRange(start_batch, end_batch)

\* run_migration: the values batch_num takes, numbered from 1
Refresh_batch_nums(len, start_batch, max_batches) ==
    LET end_batch == IF Truthy(max_batches)
                     THEN Min(start_batch + max_batches.value - 1, total_batches(len))
                     ELSE total_batches(len)
    IN PyRange(start_batch, end_batch + 1)

\* the batches a run with these arguments goes through; without an abort the
\* loop processes every one of them, in this order
Batch_nums(p, a) ==
    IF p = "production" THEN Prod_batch_nums(a.len, a.start_batch, a.max_batches)
    ELSE Refresh_batch_nums(a.len, a.start_batch, a.max_batches)

\* the number of the first batch of the list: 0 in production, 1 in refresh
FirstBatch(p) == IF p = "production" THEN 0 ELSE 1

\* lists of up to NumFiles files, a first batch up to one past the last, a
\* limit up to one more than there are batches, or none
RangeArgs(p) ==
    [len : 0..NumFiles,
     start_batch : FirstBatch(p)..(FirstBatch(p) + NumFiles),
     max_batches : {NotGiven} \cup {Given(n) : n \in 0..(NumFiles + 1)}]

\* one run's batch range is computed
range_call ==
    /\ prog \in RangePrograms /\ ~call.made
    /\ \E a \in RangeArgs(prog) :
         call' = [made |-> TRUE, arg |-> a, out |-> Batch_nums(prog, a)]
    /\ UNCHANGED <<programs, backup>>

InitRange ==
    /\ prog \in RangePrograms
    /\ batch_size \in 1..BatchSize
    /\ max_runs = MaxRuns
    /\ sizes = [k \in Files |-> 1]
    /\ Start

SpecRange == InitRange /\ [][range_call]_vars

\* ================= one download, attempt by attempt =================

\* what one GET of the file ends in: the whole content written, the stream cut
\* after the local file was opened, 401, another HTTP error, no response
Answers == {"ok", "cut", "401", "http", "error"}

\* the local file: not there, cut short, whole
LocalStates == {"absent", "partial", "complete"}

\* "attempt == 0" in the place of "attempt == max_retries - 1"
Last_attempt_first(attempt, max_retries) == attempt = 0

\* "if attempt == max_retries - 1: return failed"
Last_attempt(attempt, max_retries) == attempt = max_retries - 1

\* what a call of a download function returned and left behind
Downloaded(status, n, file, error, skipped) ==
    [status |-> status, attempts |-> n, local |-> file, error |-> error, skipped |-> skipped]

\* open(local_file_path, 'wb') and the chunks written until the answer ends
Local_after(answer, file) ==
    CASE answer = "ok" -> "complete"
      [] answer = "cut" -> "partial"
      [] OTHER -> file

\* "for attempt in range(max_retries)" from the pass `attempt` on, the local
\* file being `file`; after the loop download_file_safely returns None and
\* download_file_safely_turbo "Max retries exceeded"
RECURSIVE Download_attempts(_, _, _, _, _)
Download_attempts(p, a, max_retries, attempt, file) ==
    IF attempt >= max_retries
    THEN Downloaded(IF p = "download" THEN "none" ELSE "failed", attempt, file, "max", FALSE)
    ELSE LET answer == a.answers[attempt + 1]
             now == Local_after(answer, file)
         IN IF answer = "ok" THEN Downloaded("success", attempt + 1, now, "none", FALSE)
            ELSE IF answer = "401" /\ a.ids /\ attempt < max_retries - 1 /\ a.fresh_url
            THEN Download_attempts(p, a, max_retries, attempt + 1, now)
            ELSE IF Last_attempt(attempt, max_retries)
            THEN Downloaded("failed", attempt + 1, now, answer, FALSE)
            ELSE Download_attempts(p, a, max_retries, attempt + 1, now)

\* download_file_safely(file_info, ..., max_retries)
Download_file_safely(a, max_retries, file) ==
    Download_attempts("download", a, max_retries, 0, file)

\* download_file_safely_turbo(file_info, ..., max_retries): "Skip if file
\* already exists", then the loop
Download_file_safely_turbo(a, max_retries, file) ==
    IF file /= "absent" THEN Downloaded("success", 0, file, "none", TRUE)
    ELSE Download_attempts("download_turbo", a, max_retries, 0, file)

\* the body of download_all_files' loop for one file: an existing file is
\* recorded as skipped; another is downloaded, and for a failure whose error
\* text holds "401" downloaded once more with a new token and max_retries=1
Download_all_files_one(a) ==
    LET first == IF a.local /= "absent" THEN Downloaded("success", 0, a.local, "none", TRUE)
                 ELSE Download_file_safely(a, a.max_retries, a.local)
        again == first.status = "failed" /\ first.error = "401" /\ a.token_ok
        second == Download_file_safely([a EXCEPT !.answers = <<a.retry_answer>>],
                                       1, first.local)
    IN [first |-> first, retried |-> again, final |-> IF again THEN second ELSE first]

\* download_worker up to the lock: the download, and for a failure whose error
\* text holds "401" a new token and one more call with max_retries=1
Download_worker(a) ==
    LET first == Download_file_safely_turbo(a, a.max_retries, a.local)
        again == first.status = "failed" /\ first.error = "401" /\ a.token_ok
        second == Download_file_safely_turbo([a EXCEPT !.answers = <<a.retry_answer>>],
                                             1, first.local)
    IN [first |-> first, retried |-> again, final |-> IF again THEN second ELSE first]

Download_one(p, a) == IF p = "download" THEN Download_all_files_one(a) ELSE Download_worker(a)

\* one file of the list, found absent or whole, and how the server answers
DownloadArgs ==
    [max_retries : 0..MaxRetries,
     answers : [1..MaxRetries -> Answers],
     ids : BOOLEAN,                 \* drive_id and the file's id are given
     fresh_url : BOOLEAN,           \* get_fresh_download_url returns a URL
     local : {"absent", "complete"},
     retry_answer : Answers,        \* the answer to the call after a new token
     token_ok : BOOLEAN]            \* get_graph_token returns a token

\* one file is taken up and its result is returned
download_call ==
    /\ prog \in DownloadPrograms /\ ~call.made
    /\ \E a \in DownloadArgs :
         call' = [made |-> TRUE, arg |-> a, out |-> Download_one(prog, a)]
    /\ UNCHANGED <<programs, backup>>

InitAttempts ==
    /\ prog \in DownloadPrograms
    /\ batch_size = BatchSize
    /\ max_runs = MaxRuns
    /\ sizes = [k \in Files |-> 1]
    /\ Start

SpecAttempts == InitAttempts /\ [][download_call]_vars

\* ========================= the error classifiers =========================

\* an error message is the set of the substrings, among those a classifier
\* looks for, that it contains (words after lower())
Substrings == {"401", "unauthorized", "404", "not found", "timeout", "timed out",
               "connection", "permission", "access", "429", "rate limit",
               "500", "502", "503", "403"}
Messages == {m \in SUBSET Substrings : Cardinality(m) <= MaxTokens}

ClassifierPrograms == {"log_analyzer", "dashboard_monitor", "simple_dashboard"}

\* a classifier that looks at the call before: a message seen again is Other
LogAnalyzer_classify_error_once(error_msg) ==
    IF call.made /\ call.arg = error_msg THEN "Other"
    ELSE IF "401" \in error_msg THEN "Authentication"
    ELSE "Other"

\* LogAnalyzer.classify_error
LogAnalyzer_classify_error(error_msg) ==
    IF "401" \in error_msg \/ "unauthorized" \in error_msg THEN "Authentication"
    ELSE IF "404" \in error_msg \/ "not found" \in error_msg THEN "File Not Found"
    ELSE IF "timeout" \in error_msg THEN "Timeout"
    ELSE IF "connection" \in error_msg THEN "Connection"
    ELSE IF "429" \in error_msg THEN "Rate Limit"
    ELSE IF "500" \in error_msg \/ "503" \in error_msg THEN "Server Error"
    ELSE "Other"

\* SharePointDashboard.classify_error
Dashboard_classify_error(error_msg) ==
    IF "401" \in error_msg \/ "unauthorized" \in error_msg THEN "Authentication"
    ELSE IF "404" \in error_msg \/ "not found" \in error_msg THEN "File Not Found"
    ELSE IF "timeout" \in error_msg \/ "timed out" \in error_msg THEN "Timeout"
    ELSE IF "connection" \in error_msg THEN "Connection"
    ELSE IF "permission" \in error_msg \/ "access" \in error_msg THEN "Permission"
    ELSE IF "429" \in error_msg \/ "rate limit" \in error_msg THEN "Rate Limit"
    ELSE IF "500" \in error_msg \/ "503" \in error_msg \/ "502" \in error_msg
    THEN "Server Error"
    ELSE "Other"

\* SimpleProgressMonitor.generate_file_insights, "Failure analysis"
Simple_failure_kind(error) ==
    IF "429" \in error THEN "Rate Limiting (429)"
    ELSE IF "timeout" \in error THEN "Timeout"
    ELSE IF "connection" \in error THEN "Connection Error"
    ELSE IF "404" \in error THEN "File Not Found (404)"
    ELSE IF "403" \in error THEN "Access Denied (403)"
    ELSE "Other Error"

Classify(p, m) ==
    CASE p = "log_analyzer" -> LogAnalyzer_classify_error(m)
      [] p = "dashboard_monitor" -> Dashboard_classify_error(m)
      [] OTHER -> Simple_failure_kind(m)

\* a classifier is called; the call made before it is kept beside its result
classify_call ==
    /\ prog \in ClassifierPrograms
    /\ IF call.made THEN ~call.before.made ELSE TRUE
    /\ \E m \in Messages :
         call' = [made |-> TRUE, arg |-> m, out |-> Classify(prog, m),
                  before |-> IF call.made THEN [call EXCEPT !.before = NoCall] ELSE NoCall]
    /\ UNCHANGED <<programs, backup>>

InitClassify ==
    /\ prog \in ClassifierPrograms
    /\ batch_size = BatchSize
    /\ max_runs = MaxRuns
    /\ sizes = [k \in Files |-> 1]
    /\ Start

SpecClassify == InitClassify /\ [][classify_call]_vars

\* --------------------------- main: the exit status ---------------------------

\* the status the command exits with: main returns whatever the run returned
\* and nothing calls sys.exit, so a run that returns exits 0; an exception that
\* leaves main, or a kill, ends the process with a status other than 0
main_exit_status == IF pc \in {"done", "refused"} THEN 0 ELSE 1

\* ======================= runs that nothing interrupts ======================

\* migrate_files run from `store` through every batch from b, transfers ending as o
RECURSIVE Prod_run(_, _, _)
Prod_run(store, o, b) ==
    IF b >= Prod_end_batch THEN store
    ELSE LET before == [store EXCEPT !.current_batch = b + 1]
         IN Prod_run(Prod_process_results(before,
                         Prod_upload_batch(before, Prod_batch(b), o), b), o, b + 1)

\* migrate_files_optimized run from `store` through every batch of `remaining` from b
RECURSIVE Turbo_run(_, _, _, _)
Turbo_run(store, remaining, o, b) ==
    IF b >= Turbo_num_batches(remaining) THEN store
    ELSE Turbo_run(Turbo_process_results(store,
                       Turbo_migrate_batch_async(Turbo_batch(remaining, b), o), 0).store,
                   remaining, o, b + 1)

\* the completed keys of one run over the whole file list, started without a
\* progress file and not interrupted
UninterruptedCompleted(o) ==
    IF prog = "production"
    THEN DOMAIN Prod_run([Prod_Fresh EXCEPT !.total_files = Len(files)], o, 0).completed_files
    ELSE Range(Turbo_run(Turbo_init_progress,
                         Turbo_remaining_files(Turbo_init_progress), o, 0).completed_files)

\* =============================== properties ===============================

\* the keys a progress dictionary holds a failure record for
FailedKeys(store) ==
    CASE prog = "production" ->
            {store.failed_files_list[i].path : i \in DOMAIN store.failed_files_list}
      [] prog \in {"turbo", "turbo_fixed", "fabric"} ->
            {store.failed_files[i].file : i \in DOMAIN store.failed_files} \ {unknown}
      [] OTHER -> {}

\* the number of failures a progress dictionary records
FailedCount(store) ==
    IF prog = "production" THEN Len(store.failed_files_list) ELSE store.failed_files

\* C1: no file whose key is in completed_files has its transfer issued again:
\* neither a key completed when the transfer is issued nor a key the run loaded
\* as completed is among the keys the run transfers.
C1_NoDuplicateCompletion ==
    /\ reissued = {}
    /\ attempted \cap startCompleted = {}

\* C1 witness: a production re-run that loaded completed keys has finished; it
\* transferred some file and its last batch returned a skipped result.
C1_Witness ==
    /\ prog = "production" /\ pc = "done" /\ runs >= 2
    /\ startCompleted /= {} /\ attempted /= {}
    /\ Count(lastResults, "skipped") > 0

\* C2 (as claimed): a finished run has attempted every item that was not completed
\* when it started, in particular every item whose last transfer had failed.
C2_FailedRetriedOnRerun ==
    (pc = "done" /\ prog \in {"turbo_fixed", "complete", "fabric"}) =>
        \A k \in Files :
            (IF prog = "fabric" THEN seen[k] /= "ok" ELSE k \notin startCompleted)
                => k \in attempted

\* C3: when outcomes do not change, a run that finishes, after any earlier runs
\* that were killed or aborted, ends with the completed keys of one
\* uninterrupted run.
C3_IdempotentResume ==
    (pc = "done" /\ stable /\ prog \in {"production", "turbo_fixed"}) =>
        CompletedKeys(progress) = UninterruptedCompleted(seen)

\* C3 witness: a production run killed after its first batch was saved, and the
\* resumed run finished having uploaded a file the first run never reached.
C3_Witness ==
    /\ prog = "production" /\ pc = "done" /\ stable /\ wasKilled
    /\ startCompleted /= {}
    /\ \E k \in attempted : seen[k] = "ok"
    /\ \E k \in Files : seen[k] = "fail"

\* C4 (as claimed): in every saved snapshot completed + failed + skipped is at
\* most total, and equals total when the run has finished with nothing pending.
C4_Conservation ==
    (disk.kind = "ok" /\ prog \in {"production", "complete"}) =>
        LET d == disk.data
            sum == Cardinality(DOMAIN d.completed_files) + FailedCount(d) + d.skipped_files
        IN /\ sum <= d.total_files
           /\ (pc = "done" /\ DOMAIN d.completed_files = Files) => sum = d.total_files

\* C5 (as claimed): in every saved snapshot no key is both completed and failed.
C5_KeyExclusivity ==
    (disk.kind = "ok" /\ prog \in {"production", "turbo_fixed"}) =>
        CompletedKeys(disk.data) \cap FailedKeys(disk.data) = {}

\* C6 (as claimed): no run ends because load_progress raised.
C6_LoadNeverRaises == pc /= "load_raised"

\* C7 (as claimed): a process killed during save_progress leaves a file that a
\* later load can read.
C7_AtomicSave == pc = "killed_in_save" => disk.kind /= "torn"

\* C8 (as claimed): no run is ended by the exception of a failed save.
C8_SaveFailureDoesNotAbort == abort_cause /= "save"

Turbo_unsaved_batches ==
    CASE pc = "batch" -> IF batch_num = 0 THEN 0 ELSE (batch_num - 1) % SaveEvery
      [] pc = "save" /\ batch_num < Turbo_num_batches(work) ->
            IF batch_num = 0 THEN 1 ELSE SaveEvery
      [] pc = "save" -> (batch_num - 1) % SaveEvery
      [] OTHER -> 0

C10_ExceptionIsolation ==
    (prog \in {"production", "turbo"} /\ pc \in {"batch", "save", "mid_save", "done"}) =>
        \A i \in DOMAIN lastResults :
            /\ lastResults[i].kind = "success" =>
                   lastResults[i].path \in CompletedKeys(progress)
            /\ lastResults[i].kind = "failed" =>
                   lastResults[i].path \in FailedKeys(progress)

\* C11 (as claimed): an exception raised by a transfer leaves a failure record
\* that carries the key of its file in the failed list.
C11_ExceptionConversion ==
    (prog \in {"production", "turbo_fixed"} /\ pc \in {"batch", "save", "mid_save", "done"}) =>
        \A i \in DOMAIN lastResults :
            lastResults[i].kind = "exception" =>
                lastResults[i].path \in FailedKeys(progress)

\* C17 (as claimed): run_complete_migration returns True only when every file
\* of the file list is in completed_files.
C17_CompletedOnlyWhenNonePending ==
    (prog = "complete" /\ pc = "done" /\ ret = "True") =>
        CompletedKeys(progress) = Files

\* the batch with 0-based index b of the current run, and the number of batches
BatchOf(b) ==
    CASE prog = "production" -> Prod_batch(b)
      [] prog \in TurboPrograms -> Turbo_batch(work, b)
      [] prog = "fabric" -> Fabric_batch(b)
      [] OTHER -> Refresh_batch(b + 1)

NumBatchesOf ==
    CASE prog = "production" -> Prod_end_batch
      [] prog \in TurboPrograms -> Turbo_num_batches(work)
      [] prog = "fabric" -> Fabric_num_batches
      [] OTHER -> total_batches(Len(files))

\* the batches from index b on, one after the other
RECURSIVE BatchesFrom(_)
BatchesFrom(b) ==
    IF b >= NumBatchesOf THEN <<>> ELSE BatchOf(b) \o BatchesFrom(b + 1)

\* every batch but the last has batch_size items, the last has 1..batch_size
FullBatches ==
    \A b \in 0..(NumBatchesOf - 1) :
        IF b < NumBatchesOf - 1 THEN Len(BatchOf(b)) = batch_size
        ELSE Len(BatchOf(b)) \in 1..batch_size

\* the file list without the files completed when the run started, in its order
PendingList == SelectSeq(files, LAMBDA k : k \notin startCompleted)

\* s holds every file once, in ascending size, files of one size in list order
\* (files[i] = i, so the list order of two files is the order of their numbers)
SortedBySize(s) ==
    /\ Len(s) = Len(files) /\ Range(s) = Range(files)
    /\ \A i, j \in DOMAIN s :
           i < j => \/ sizes[s[i]] < sizes[s[j]]
                    \/ sizes[s[i]] = sizes[s[j]] /\ s[i] < s[j]

C13_SequentialBatches ==
    /\ InFlight /= {} =>
           /\ pc = "uploading"
           /\ InFlight \subseteq Range(Upload_batch_files)
    /\ pc = "uploading" =>
           /\ unsaved = 0
           /\ lastApplied = Len(lastResults)

\* C13 witness: production is uploading its second batch with an upload in
\* flight, after the first batch's results were saved.
C13_Witness ==
    /\ prog = "production" /\ pc = "uploading" /\ batch_num = 1
    /\ InFlight /= {} /\ disk.kind = "ok"

\* C14 (as claimed): at most MAX_CONCURRENT_UPLOADS uploads have started and
\* not finished.
C14_BoundedConcurrency == Cardinality(InFlight) <= MaxConcurrent

\* C18 (as claimed): a run that finds no token, or a file list that is empty
\* or unreadable, returns a failure result with no transfer issued; and a run
\* that found both never ends outright (refused, or left by an exception).
C18_FatalPreconditions ==
    /\ (pc \in Stopped \ {"idle"} /\ given /= Sound) =>
           /\ pc = "refused"
           /\ ret = "False"
           /\ attempted = {}
    /\ (pc \in {"refused", "load_raised", "aborted"}) => given /= Sound

\* the files that are not completed and whose last transfer failed
RemainFailed ==
    {k \in Files : k \notin CompletedKeys(progress) /\ seen[k] \in {"fail", "raise"}}

\* C19 (as claimed): when a run of production or complete has ended, the
\* command exits with 0 if every file is completed and with another status if
\* some file remains failed.
C19_ExitStatus ==
    (prog \in {"production", "complete"} /\ pc = "done") =>
        /\ Files \subseteq CompletedKeys(progress) => main_exit_status = 0
        /\ RemainFailed /= {} => main_exit_status /= 0

\* the tasks of the pool in a given state
WorkersIn(state) == {w \in DOMAIN workers : workers[w].state = state}

\* how many times file f was appended to the list `now` since it had length n
AppendedTimes(now, n, f) == Cardinality({k \in (n + 1)..Len(now) : now[k] = f})

\* C15: in download_all_files_turbo, under every interleaving of the workers,
\* at most one worker is inside the "with progress_lock" block and it holds the
\* lock; total_processed has grown by exactly one per recorded result, and each
\* recorded result was appended exactly once, to results.success or to
\* results.failed according to its status, and not to the other list.
C15_SerializedMutation ==
    prog = "download_turbo" =>
        /\ Cardinality(WorkersIn("locked")) <= 1
        /\ \A w \in WorkersIn("locked") : progress_lock = w
        /\ total_processed = at_start.processed + Cardinality(WorkersIn("returned"))
        /\ Len(dl_results.success) + Len(dl_results.failed)
             = at_start.success + at_start.failed + Cardinality(WorkersIn("returned"))
        /\ \A w \in WorkersIn("returned") :
             LET f == files[workers[w].index + 1]
                 s == AppendedTimes(dl_results.success, at_start.success, f)
                 e == AppendedTimes(dl_results.failed, at_start.failed, f)
             IN IF workers[w].status = "success" THEN s = 1 /\ e = 0 ELSE s = 0 /\ e = 1

\* C15 witness: one worker has recorded its result, a second is inside the
\* locked block and a third is waiting for the lock.
C15_Witness ==
    /\ prog = "download_turbo"
    /\ WorkersIn("returned") /= {}
    /\ WorkersIn("locked") /= {}
    /\ WorkersIn("waiting") /= {}

\* the files a download progress file holds a result for
Recorded(file) == Range(file.results.success) \cup Range(file.results.failed)

\* C16 (as claimed): a downloader that an interrupt has ended has written the
\* progress file, and the file is a checkpoint a re-run resumes from: every
\* file the re-run will not take up (index up to last_processed_index) has its
\* result in the file.
C16_InterruptCheckpoint ==
    dpc = "interrupted" =>
        /\ progress_file.exists
        /\ \A i \in 0..(NumFiles - 1) :
             i <= progress_file.last_processed_index => files[i + 1] \in Recorded(progress_file)

\* C20 (as claimed): no step of a downloader removes the progress file.
C20_ProgressNeverDeleted == [][progress_file.exists => progress_file'.exists]_vars

\* C24 (as claimed): when download_all_files_turbo is run again after an
\* interrupt or a kill, every file that is not at the destination is given to
\* a worker of the resumed run, whatever last_processed_index was persisted.
C24_ResumeAttemptsMissing ==
    [][(prog = "download_turbo" /\ dpc \in {"interrupted", "killed"} /\ dpc' = "run")
         => \A f \in Files \ local :
              \E w \in DOMAIN workers' : files[workers'[w].index + 1] = f]_vars

\* C25 (as claimed): when clear_failed_files_status has emptied the failed list
\* and download_all_files_turbo is run next, every file that was in the failed
\* list and is not at the destination is given to a worker of that run.
C25_ClearedAreRetried ==
    [][(call.made /\ call.out /\ call.at = runs /\ dpc \in DStopped /\ dpc' = "run")
         => \A f \in Range(call.arg.results.failed) \ local :
              \E w \in DOMAIN workers' : files[workers'[w].index + 1] = f]_vars

\* C26: a call of clear_failed_files_status that changes the progress file has
\* first written the unmodified progress data to a backup; a call whose backup
\* cannot be written returns False and leaves the progress file as it was; and
\* once the failed list has been cleared, the backup of the data it was cleared
\* from is there in every later state, through the runs that follow.
C26_BackupBeforeClear ==
    [][/\ call' /= call =>
            /\ progress_file' /= progress_file => progress_file \in backup'
            /\ call'.fault = "backup" => ~call'.out /\ progress_file' = progress_file
       /\ (call'.made /\ call'.out) => call'.arg \in backup']_vars

\* C26 witness: the failed list has been cleared, the backup holds it, and a
\* run has started since.
C26_Witness ==
    /\ call.made /\ call.out
    /\ call.arg.results.failed /= <<>>
    /\ call.arg \in backup
    /\ runs > call.at

\* C27 (as claimed): with max_batches given, whatever integer >= 0 it is, the
\* batches gone through are those with 0-based index from start_batch up to,
\* not including, min(total_batches, start_batch + max_batches), each once and
\* in order, hence at most max_batches of them; with max_batches not given they
\* are all batches from start_batch on.
C27_MaxBatchesBounds ==
    (call.made /\ prog \in RangePrograms) =>
        LET first == call.arg.start_batch - FirstBatch(prog)
            total == total_batches(call.arg.len)
            limit == IF call.arg.max_batches.given
                     THEN Min(total, first + call.arg.max_batches.value)
                     ELSE total
            index == [k \in DOMAIN call.out |-> call.out[k] - FirstBatch(prog)]
        IN /\ index = PyRange(first, limit)
           /\ call.arg.max_batches.given => Len(call.out) <= call.arg.max_batches.value

C31_CountersAgree ==
    (prog = "production" /\ disk.kind = "ok") =>
        /\ disk.data.uploaded_files = Cardinality(DOMAIN disk.data.completed_files)
        /\ disk.data.failed_files = Len(disk.data.failed_files_list)

\* a call that made max_retries >= 1 permitted attempts at most, returned
\* success or failed, and failed only after the last permitted attempt failed
Bounded(result, max_retries, last) ==
    /\ result.attempts <= max_retries
    /\ result.status \in {"success", "failed"}
    /\ result.status = "failed" => (result.attempts = max_retries /\ last /= "ok")

C34_SuccessIsComplete ==
    (call.made /\ prog \in DownloadPrograms /\ call.out.final.status = "success") =>
        call.out.final.local = "complete"

\* C33 (as claimed): when download_all_files_turbo returns, every file of the
\* remaining work list has been appended by this run to exactly one of
\* results.success and results.failed, once.
C33_AllAccounted ==
    (prog = "download_turbo" /\ dpc = "done") =>
        \A w \in DOMAIN workers :
            LET f == files[workers[w].index + 1]
            IN AppendedTimes(dl_results.success, at_start.success, f)
                 + AppendedTimes(dl_results.failed, at_start.failed, f) = 1

\* the records of completed_files in `before` are in `after`, unchanged
KeepsRecords(before, after) ==
    \A k \in DOMAIN before.completed_files :
        /\ k \in DOMAIN after.completed_files
        /\ after.completed_files[k] = before.completed_files[k]

\* C35: in the production migrator a record of completed_files, once there, is
\* kept as it is by every batch, by every snapshot a save writes and by every
\* run that loads the snapshot; a batch whose keys are all completed changes
\* nothing but the counter skipped_files (and the batch's own number).
C35_CompletedFrozen ==
    [][prog = "production" =>
         /\ (progress /= NoStore /\ progress' /= NoStore) => KeepsRecords(progress, progress')
         /\ (progress = NoStore /\ progress' /= NoStore /\ disk.kind = "ok")
              => KeepsRecords(disk.data, progress')
         /\ (progress /= NoStore /\ disk' /= disk /\ disk'.kind = "ok")
              => KeepsRecords(progress, disk'.data)
         /\ (pc = "batch" /\ pc' = "save"
               /\ \A i \in DOMAIN lastResults' : lastResults'[i].kind = "skipped")
              => progress' = [progress EXCEPT !.skipped_files = @ + Len(lastResults'),
                                              !.current_batch = batch_num + 1]]_vars

\* C35 witness: a second run has skipped a key completed by the first run and
\* has completed another key itself.
C35_Witness ==
    /\ prog = "production" /\ progress /= NoStore
    /\ \E i \in DOMAIN lastResults : lastResults[i].kind = "skipped"
    /\ \E k \in DOMAIN progress.completed_files : progress.completed_files[k].timestamp = 1
    /\ \E k \in DOMAIN progress.completed_files : progress.completed_files[k].timestamp = 2

\* C37 (as claimed): in every progress file saved by turbo_fixed's
\* migrate_files_optimized, over any sequence of resumed runs,
\* stats.successful_uploads is the number of entries of completed_files,
\* processed_files = successful_uploads + failed_uploads, and processed_files
\* does not exceed total_files.
C37_StatsConsistent ==
    (prog = "turbo_fixed" /\ disk.kind = "ok" /\ disk.data.stats /= EmptyDict) =>
        /\ disk.data.stats.successful_uploads = Len(disk.data.completed_files)
        /\ disk.data.stats.processed_files =
               disk.data.stats.successful_uploads + disk.data.stats.failed_uploads
        /\ disk.data.stats.processed_files <= disk.data.stats.total_files

\* how often the file f stands in the list s
Occurrences(s, f) == Cardinality({i \in DOMAIN s : s[i] = f})

\* C36 (as claimed): after update_progress_file has returned True, every file
\* retried successfully is in results.success and not in results.failed, every
\* retried file that still failed is in results.failed exactly once, the failed
\* entries that were not retried are kept as they were, and downloaded_count
\* and failed_count are the lengths of the two lists; a call in which a step
\* raises returns False.
C36_RetryBookkeeping ==
    (prog = "download_turbo" /\ call.made) =>
        IF ~call.out THEN TRUE
        ELSE call.fault = "none" /\
             LET before == call.arg.results
                 after == call.after.results
                 retried == Range(call.successful_retries \o call.still_failed)
             IN /\ \A f \in Range(call.successful_retries) :
                      f \in Range(after.success) /\ f \notin Range(after.failed)
                /\ \A f \in Range(call.still_failed) : Occurrences(after.failed, f) = 1
                /\ \A f \in Range(before.failed) \ retried :
                      Occurrences(after.failed, f) = Occurrences(before.failed, f)
                /\ call.after.downloaded_count = Len(after.success)
                /\ call.after.failed_count = Len(after.failed)

\* C21 (as claimed): a transfer whose destination already holds the item
\* returns a skipped result and sends no request.
C21_SkipAtDestination ==
    (call.made /\ prog \in {"download_turbo", "production", "refresh"}
       /\ call.arg.at_destination) =>
        /\ call.out.result = "skipped"
        /\ call.out.requests = <<>>

\* the positions of the requests that were sent again after a 401
Resent(reqs) == {k \in 2..Len(reqs) : reqs[k].query = reqs[k - 1].query}

\* C23 (as claimed): a request of upload_file_to_onelake answered with 401 is
\* sent again once with a token obtained after the 401, and the upload fails at
\* that step only if the refresh failed or the request sent again failed.
C23_RefreshOn401 ==
    (call.made /\ prog \in RefreshPrograms) =>
        LET reqs == call.out.requests
        IN /\ \A k \in Resent(reqs) : reqs[k].token > reqs[k - 1].token
           /\ \A i \in 1..3 :
                (~call.arg.recorded /\ Len(call.arg.server[i]) = 2
                   /\ call.out.result = "failed" /\ Len(reqs) > 0
                   /\ reqs[Len(reqs)].query = Req(prog, i, 0, 0).query) =>
                    \/ call.arg.server[i][2] \notin Accepts(prog, i)
                    \/ ~call.arg.refresh_ok

\* the three requests of an upload of `size` bytes, in order
Protocol(size) == [i \in 1..3 |-> Req("production", i, size, 0)]

\* C29 (as claimed): upload_file_async sends create (PUT ?resource=file), append
\* at position 0 and flush at position = size, in this order, each only after
\* the one before was answered with a success status; a failed step is the last
\* request and gives a failure result; success is returned only if every
\* request sent succeeded, for a file that is not empty only after the flush.
C29_ProtocolOrder ==
    (call.made /\ prog \in {"production", "turbo_working", "turbo_fixed"}) =>
        LET reqs == call.out.requests
            answer(k) == call.arg.server[k][1]
        IN /\ Len(reqs) <= 3
           /\ reqs = SubSeq(Protocol(call.arg.size), 1, Len(reqs))
           /\ \A k \in 1..(Len(reqs) - 1) : answer(k) \in {200, 201, 202}
           /\ call.out.result = "failed" =>
                Len(reqs) >= 1 /\ answer(Len(reqs)) \notin Accepts(prog, Len(reqs))
           /\ call.out.result = "success" =>
                /\ \A k \in 1..Len(reqs) : answer(k) \in {200, 201, 202}
                /\ call.arg.size > 0 => Len(reqs) = 3

\* the kind the fixed order gives: Authentication, NotFound, Timeout,
\* Connection, RateLimit, ServerError (5xx), else Other
Priority(m) ==
    IF "401" \in m \/ "unauthorized" \in m THEN "Authentication"
    ELSE IF "404" \in m \/ "not found" \in m THEN "NotFound"
    ELSE IF "timeout" \in m THEN "Timeout"
    ELSE IF "connection" \in m THEN "Connection"
    ELSE IF "429" \in m THEN "RateLimit"
    ELSE IF {"500", "502", "503"} \cap m /= {} THEN "ServerError"
    ELSE "Other"

\* the kind a classifier's label stands for
KindOf(label) ==
    CASE label \in {"File Not Found", "File Not Found (404)"} -> "NotFound"
      [] label \in {"Rate Limit", "Rate Limiting (429)"} -> "RateLimit"
      [] label = "Connection Error" -> "Connection"
      [] label = "Server Error" -> "ServerError"
      [] label = "Other Error" -> "Other"
      [] OTHER -> label

\* C22 (as claimed): every classifier returns, for every message, the first
\* matching kind of the fixed order.
C22_ClassifierPriority ==
    call.made => KindOf(call.out) = Priority(call.arg)

====
